---- MODULE Spec2Model ----
(***************************************************************************)
(* A model of the decoding core of blender-mmd:                            *)
(*   - chains.py      detect_chains   (specification SpecChains)           *)
(*   - vmd/parser.py  parse           (specification SpecVmd)              *)
(*   - pmx/parser.py  parse           (specification SpecPmx)              *)
(*   - a PMX import followed by a VMD import (specification SpecImport)    *)
(*   - pmx/parser.py  index readers   (specification SpecIndex)            *)
(*   - pmx/parser.py  _pos and _rot   (specification SpecConv)             *)
(*   - armature.py, vmd/importer.py  axis permutation (specification SpecPerm) *)
(*   - armature.py  bone names       (specification SpecNames)            *)
(* Python indices are 0-based and are kept 0-based as values; TLA+         *)
(* sequences are 1-based, so element i of a Python list is s[i + 1].       *)
(***************************************************************************)
EXTENDS Integers, Sequences, FiniteSets, TLC

VARIABLES
    \* ---- chains.py: detect_chains(model) ----
    rigid_bodies,   \* model.rigid_bodies: sequence of [mode, bone_index]
    joints,         \* model.joints: sequence of [src_rigid, dest_rigid]
    cpc,            \* position in detect_chains
    neighbors,      \* rb_index -> sequence of <<neighbor_rb, joint_idx>>
    roots,          \* the list of chain roots
    rootPos,        \* 1-based position of the for loop over sorted(roots)
    visited,        \* set of rigid indices already claimed by a chain
    chains,         \* the list of Chain records returned
    \* ---- vmd/parser.py: parse(filepath) ----
    buf,            \* the bytes of the file (buf[p] in Python is buf[p + 1] here)
    pos,            \* the cursor
    vpc,            \* position in parse
    count,          \* the record count of the section being read
    idx,            \* number of iterations of the section's loop done so far
    model_name,
    bone_keyframes,
    morph_keyframes,
    camera_keyframes,
    property_keyframes,
    vresult,        \* "none", "VmdMotion" or the exception raised
    \* ---- pmx/parser.py: parse(filepath) ----
    fbytes,         \* the bytes of the file opened as f
    fpos,           \* the cursor of f
    ppc,            \* position in parse
    header,         \* the Header handed to r.set_header
    model,          \* the fields of the Model assigned so far
    reads,          \* the reads the last step made: [op, at, n, got]
    fcase,          \* how the input file was made (not read by the parser)
    presult,        \* "none", "Model" or the exception raised
    \* ---- one call of a function or method on given arguments ----
    callpc,         \* "idle", "ready", then how far the calls have got
    callfn,         \* the function called
    callarg,        \* its argument
    callret         \* what it returned

chainVars == <<rigid_bodies, joints, cpc, neighbors, roots, rootPos, visited, chains>>

vmdVars == <<buf, pos, vpc, count, idx, model_name, bone_keyframes, morph_keyframes,
             camera_keyframes, property_keyframes, vresult>>

pmxVars == <<fbytes, fcase, fpos, ppc, header, model, reads, presult>>

callVars == <<callpc, callfn, callarg, callret>>

vars == <<chainVars, vmdVars, pmxVars, callVars>>

\* What the actions of each component leave alone
notChains == <<vmdVars, pmxVars, callVars>>
notVmd == <<chainVars, pmxVars, callVars>>
notPmx == <<chainVars, vmdVars, callVars>>
notCall == <<chainVars, vmdVars, pmxVars>>

(***************************************************************************)
(* Generic helpers                                                         *)
(***************************************************************************)
Range(s) == {s[i] : i \in 1..Len(s)}

Min(a, b) == IF a <= b THEN a ELSE b

\* All sequences over S of length 0..n
SeqsUpTo(S, n) == UNION {[1..k -> S] : k \in 0..n}

RECURSIVE Concat(_)
Concat(ss) ==
    IF Len(ss) = 0 THEN <<>>
    ELSE IF Len(ss) = 1 THEN ss[1]
    ELSE LET h == Len(ss) \div 2
         IN Concat(SubSeq(ss, 1, h)) \o Concat(SubSeq(ss, h + 1, Len(ss)))

\* Python's sorted() on a list of integers (insertion sort, stable)
RECURSIVE Insert(_, _)
Insert(x, s) ==
    IF s = <<>> THEN <<x>>
    ELSE IF x < Head(s) THEN <<x>> \o s
    ELSE <<Head(s)>> \o Insert(x, Tail(s))

\* sorted(..., reverse=True)
RECURSIVE SortedDescending(_)
SortedDescending(s) ==
    IF s = <<>> THEN <<>>
    ELSE LET m == CHOOSE i \in 1..Len(s) : \A j \in 1..Len(s) : s[j] <= s[i]
         IN <<s[m]>> \o SortedDescending(SubSeq(s, 1, m - 1) \o SubSeq(s, m + 1, Len(s)))

RECURSIVE Sorted(_)
Sorted(s) == IF s = <<>> THEN <<>> ELSE Insert(s[Len(s)], Sorted(SubSeq(s, 1, Len(s) - 1)))

(***************************************************************************)
(* chains.py                                                               *)
(***************************************************************************)
\* pmx/types.py RigidMode
STATIC == 0
DYNAMIC == 1
DYNAMIC_BONE == 2
RigidMode == {STATIC, DYNAMIC, DYNAMIC_BONE}

\* Bounds of the chain inputs
NumBodies == 3
MaxJoints == 2

BodyIdx == 0..(NumBodies - 1)

\* range(len(rigid_bodies)) of the call in progress
Bodies == 0..(Len(rigid_bodies) - 1)

\* rigid_bodies[i] in Python is rigid_bodies[i + 1] here
RB(i) == rigid_bodies[i + 1]

\* Joint endpoints: every in-range pair, and one out-of-range pair for each
\* disjunct of the range test of detect_chains.
OutOfRangeEnds == {<<-1, 0>>, <<0, -1>>, <<NumBodies, 0>>, <<0, NumBodies>>}
JointEnds == (BodyIdx \X BodyIdx) \cup OutOfRangeEnds

MkJoint(e) == [src_rigid |-> e[1], dest_rigid |-> e[2]]

\* dict.setdefault(k, []).append(v) on a total function with [] defaults
Append2(nb, k, v) == [nb EXCEPT ![k] = Append(@, v)]

\* A loop body without the range test of line 51
AddJointEdgesUnchecked(nb, j_idx) ==
    LET joint == joints[j_idx + 1]
        src == joint.src_rigid
        dst == joint.dest_rigid
    IN Append2(Append2(nb, src, <<dst, j_idx>>), dst, <<src, j_idx>>)

\* lines 48-54: the loop body for joint j_idx (0-based)
AddJointEdges(nb, j_idx) ==
    LET joint == joints[j_idx + 1]
        src == joint.src_rigid
        dst == joint.dest_rigid
    IN IF src < 0 \/ dst < 0 \/ src >= Len(rigid_bodies) \/ dst >= Len(rigid_bodies)
       THEN nb
       ELSE Append2(Append2(nb, src, <<dst, j_idx>>), dst, <<src, j_idx>>)

RECURSIVE BuildNeighbors(_, _)
BuildNeighbors(nb, j_idx) ==
    IF j_idx >= Len(joints) THEN nb
    ELSE BuildNeighbors(AddJointEdges(nb, j_idx), j_idx + 1)

\* neighbors.get(i, [])
NeighborsGet(i) == IF i \in DOMAIN neighbors THEN neighbors[i] ELSE <<>>

\* lines 58-64: body i is appended to roots
IsRoot(i) ==
    /\ RB(i).mode = STATIC
    /\ \E k \in 1..Len(NeighborsGet(i)) : RB(NeighborsGet(i)[k][1]).mode # STATIC

RECURSIVE FindRootsFrom(_)
FindRootsFrom(i) ==
    IF i >= Len(rigid_bodies) THEN <<>>
    ELSE (IF IsRoot(i) THEN <<i>> ELSE <<>>) \o FindRootsFrom(i + 1)

\* The BFS state of one root: [visited, queue, chain_rigids, chain_joints]
\* A seed loop that does not consult the global visited set
SeedStepNoVisited(root_idx, st, e) ==
    LET nb_idx == e[1]
        j_idx == e[2]
    IN IF RB(nb_idx).mode = STATIC THEN st
       ELSE [visited |-> st.visited \cup {nb_idx},
             queue |-> Append(st.queue, nb_idx),
             chain_rigids |-> Append(st.chain_rigids, nb_idx),
             chain_joints |-> Append(st.chain_joints, j_idx)]

\* lines 77-84: one iteration of the seed loop
SeedStep(root_idx, st, e) ==
    LET nb_idx == e[1]
        j_idx == e[2]
    IN IF RB(nb_idx).mode = STATIC THEN st
       ELSE IF nb_idx \notin st.visited
            THEN [visited |-> st.visited \cup {nb_idx},
                  queue |-> Append(st.queue, nb_idx),
                  chain_rigids |-> Append(st.chain_rigids, nb_idx),
                  chain_joints |-> Append(st.chain_joints, j_idx)]
            ELSE st

\* An expansion that walks through STATIC bodies too
ExpandStepThroughStatic(root_idx, st, e) ==
    LET nb_idx == e[1]
        j_idx == e[2]
    IN IF nb_idx \in st.visited \/ nb_idx = root_idx THEN st
       ELSE [visited |-> st.visited \cup {nb_idx},
             queue |-> Append(st.queue, nb_idx),
             chain_rigids |-> Append(st.chain_rigids, nb_idx),
             chain_joints |-> IF j_idx \notin Range(st.chain_joints)
                              THEN Append(st.chain_joints, j_idx)
                              ELSE st.chain_joints]

\* An expansion that records the body but not the joint
ExpandStepNoJoint(root_idx, st, e) ==
    LET nb_idx == e[1]
    IN IF nb_idx \in st.visited \/ nb_idx = root_idx THEN st
       ELSE IF RB(nb_idx).mode = STATIC THEN st
       ELSE [visited |-> st.visited \cup {nb_idx},
             queue |-> Append(st.queue, nb_idx),
             chain_rigids |-> Append(st.chain_rigids, nb_idx),
             chain_joints |-> st.chain_joints]

\* lines 89-98: one iteration of the inner loop of the expansion
ExpandStep(root_idx, st, e) ==
    LET nb_idx == e[1]
        j_idx == e[2]
    IN IF nb_idx \in st.visited \/ nb_idx = root_idx THEN st
       ELSE IF RB(nb_idx).mode = STATIC THEN st
       ELSE [visited |-> st.visited \cup {nb_idx},
             queue |-> Append(st.queue, nb_idx),
             chain_rigids |-> Append(st.chain_rigids, nb_idx),
             chain_joints |-> IF j_idx \notin Range(st.chain_joints)
                              THEN Append(st.chain_joints, j_idx)
                              ELSE st.chain_joints]

RECURSIVE SeedLoop(_, _, _)
SeedLoop(root_idx, st, k) ==
    IF k > Len(NeighborsGet(root_idx)) THEN st
    ELSE SeedLoop(root_idx, SeedStep(root_idx, st, NeighborsGet(root_idx)[k]), k + 1)

RECURSIVE ExpandInner(_, _, _, _)
ExpandInner(root_idx, st, current, k) ==
    IF k > Len(NeighborsGet(current)) THEN st
    ELSE ExpandInner(root_idx, ExpandStep(root_idx, st, NeighborsGet(current)[k]),
                     current, k + 1)

\* lines 87-98: while queue: current = queue.popleft(); ...
RECURSIVE ExpandLoop(_, _)
ExpandLoop(root_idx, st) ==
    IF st.queue = <<>> THEN st
    ELSE LET current == Head(st.queue)
             popped == [st EXCEPT !.queue = Tail(@)]
         IN ExpandLoop(root_idx, ExpandInner(root_idx, popped, current, 1))

\* A sweep that stops after the seed loop (the queue is never drained)
SweepSeedsOnly(root_idx, vis) ==
    SeedLoop(root_idx,
             [visited |-> vis, queue |-> <<>>,
              chain_rigids |-> <<>>, chain_joints |-> <<>>], 1)

\* lines 72-98 for one root
Sweep(root_idx, vis) ==
    ExpandLoop(root_idx,
        SeedLoop(root_idx,
                 [visited |-> vis, queue |-> <<>>,
                  chain_rigids |-> <<>>, chain_joints |-> <<>>], 1))

\* lines 104-105
RECURSIVE BoneIndices(_)
BoneIndices(rs) ==
    IF rs = <<>> THEN <<>>
    ELSE (IF RB(Head(rs)).bone_index >= 0 THEN <<RB(Head(rs)).bone_index>> ELSE <<>>)
         \o BoneIndices(Tail(rs))

\* lines 107-115 (name and group, which are derived from rigid-body names by
\* regular expressions, are not part of the model)
MkChain(root_idx, st) ==
    [root_rigid_index |-> root_idx,
     root_bone_index |-> RB(root_idx).bone_index,
     rigid_indices |-> st.chain_rigids,
     bone_indices |-> BoneIndices(st.chain_rigids),
     joint_indices |-> Sorted(st.chain_joints)]

\* A loop that emits a chain for every root, empty or not
EmitsChainAlways(st) == TRUE

\* line 100: if not chain_rigids: continue
EmitsChain(st) == st.chain_rigids # <<>>

\* ---- the inputs: every mode assignment of NumBodies bodies and every list of
\* ---- at most MaxJoints joints; body i is bound to bone i - 1 (body 0 unbound)
ChainInputBodies ==
    {[i \in 1..NumBodies |-> [mode |-> m[i], bone_index |-> i - 2]] :
        m \in [1..NumBodies -> RigidMode]}

ChainInputJoints ==
    {[k \in 1..Len(es) |-> MkJoint(es[k])] : es \in SeqsUpTo(JointEnds, MaxJoints)}

\* ---- and, with one body more, every mode assignment under a few joint lists
\* ---- that let two STATIC bodies each reach bodies of their own or share them
WideBodies ==
    {[i \in 1..(NumBodies + 1) |-> [mode |-> m[i], bone_index |-> i - 2]] :
        m \in [1..(NumBodies + 1) -> RigidMode]}

WideJointEnds ==
    {<<<<0, 2>>, <<1, 3>>>>,
     <<<<1, 3>>, <<0, 2>>>>,
     <<<<0, 2>>, <<2, 3>>, <<3, 1>>>>,
     <<<<3, 1>>, <<2, 3>>, <<0, 2>>>>,
     <<<<0, 1>>, <<1, 2>>, <<2, 3>>>>,
     <<<<3, 2>>, <<3, 1>>, <<3, 0>>>>,
     <<<<0, 3>>, <<1, 2>>, <<2, 3>>, <<2, 0>>>>}

WideJoints == {[k \in 1..Len(es) |-> MkJoint(es[k])] : es \in WideJointEnds}

ChainInputs ==
    (ChainInputBodies \X ChainInputJoints) \cup (WideBodies \X WideJoints)

ChainsInit ==
    /\ \E input \in ChainInputs :
          /\ rigid_bodies = input[1]
          /\ joints = input[2]
    /\ cpc = "adjacency"
    /\ neighbors = <<>>
    /\ roots = <<>>
    /\ rootPos = 1
    /\ visited = {}
    /\ chains = <<>>

\* lines 48-54
BuildAdjacency ==
    /\ cpc = "adjacency"
    /\ neighbors' = BuildNeighbors([i \in Bodies |-> <<>>], 0)
    /\ cpc' = "roots"
    /\ UNCHANGED <<rigid_bodies, joints, roots, rootPos, visited, chains>>
    /\ UNCHANGED notChains

\* lines 57-64, and sorted(roots) of line 70
FindRoots ==
    /\ cpc = "roots"
    /\ roots' = Sorted(FindRootsFrom(0))
    /\ rootPos' = 1
    /\ cpc' = "bfs"
    /\ UNCHANGED <<rigid_bodies, joints, neighbors, visited, chains>>
    /\ UNCHANGED notChains

\* lines 70-116: one iteration of the loop over sorted(roots)
SweepRoot ==
    /\ cpc = "bfs"
    /\ rootPos <= Len(roots)
    /\ LET root_idx == roots[rootPos]
           st == Sweep(root_idx, visited)
       IN /\ visited' = st.visited
          /\ chains' = IF EmitsChain(st) THEN Append(chains, MkChain(root_idx, st))
                       ELSE chains
    /\ rootPos' = rootPos + 1
    /\ UNCHANGED <<rigid_bodies, joints, cpc, neighbors, roots>>
    /\ UNCHANGED notChains

\* line 118: return chains
ReturnChains ==
    /\ cpc = "bfs"
    /\ rootPos > Len(roots)
    /\ cpc' = "done"
    /\ UNCHANGED <<rigid_bodies, joints, neighbors, roots, rootPos, visited, chains>>
    /\ UNCHANGED notChains

ChainsNext == BuildAdjacency \/ FindRoots \/ SweepRoot \/ ReturnChains

(***************************************************************************)
(* Bytes, struct and text                                                  *)
(***************************************************************************)
Byte == 0..255

\* Python's b[lo:hi] on a bytes object (0-based, clamped to the length)
Slice(b, lo, hi) == SubSeq(b, lo + 1, Min(hi, Len(b)))

\* bytes.find(b"\x00"): the 0-based offset of the first zero byte, or -1
RECURSIVE FindNullFrom(_, _)
FindNullFrom(data, k) ==
    IF k > Len(data) THEN -1
    ELSE IF data[k] = 0 THEN k - 1
    ELSE FindNullFrom(data, k + 1)

\* bytes.decode("cp932") with the errors="replace" fallback never raises.  ASCII
\* bytes decode to their own code points; what the codec makes of other bytes
\* is left symbolic.
Cp932Decode(data) ==
    IF \A k \in 1..Len(data) : data[k] < 128 THEN data ELSE [cp932 |-> data]

\* A text reader that keeps the null padding
ReadTextKeepPadding(data) == Cp932Decode(data)

\* vmd/parser.py _read_text
ReadText(data) ==
    LET end == FindNullFrom(data, 1)
    IN Cp932Decode(IF end >= 0 THEN Slice(data, 0, end) ELSE data)

\* struct.unpack_from(fmt, b, p) raises struct.error unless size bytes are there
CanUnpack(b, p, size) == p + size <= Len(b)

\* "<I": an unsigned 32-bit little-endian integer, kept as two 16-bit halves
\* (Python integers are unbounded; the halves keep every value exact)
U32At(b, p) == [lo |-> b[p + 1] + 256 * b[p + 2], hi |-> b[p + 3] + 256 * b[p + 4]]

\* n < c for a natural n below 2^16 and an unsigned 32-bit c
U32Gt(c, n) == c.hi > 0 \/ c.lo > n

\* min(p + c * size, cap) for p, cap below 2^16 and 0 < size
AdvanceCapped(p, c, size, cap) ==
    IF c.hi > 0 THEN cap ELSE Min(p + c.lo * size, cap)

\* min(c, n) for a natural n below 2^16
U32Min(c, n) == IF c.hi > 0 THEN n ELSE Min(c.lo, n)

\* "<B" and "<b"
U8At(b, p) == b[p + 1]
I8At(b, p) == IF b[p + 1] >= 128 THEN b[p + 1] - 256 ELSE b[p + 1]

\* "<f": a float32, as sign, biased exponent and fraction; the value is
\* (-1)^s * 2^(e - 127) * (1 + m / 2^23) for 0 < e < 255
F32At(b, p) ==
    [s |-> b[p + 4] \div 128,
     e |-> (b[p + 4] % 128) * 2 + (b[p + 3] \div 128),
     m |-> (b[p + 3] % 128) * 65536 + b[p + 2] * 256 + b[p + 1]]

\* Python's x == 0.0 (both signed zeros are equal to 0.0)
FloatIsZero(x) == x.e = 0 /\ x.m = 0

\* The float 1.0
FloatOne == [s |-> 0, e |-> 127, m |-> 0]

(***************************************************************************)
(* vmd/parser.py                                                           *)
(***************************************************************************)
\* _SIGNATURE = b"Vocaloid Motion Data 0002"
SIGNATURE ==
    <<86, 111, 99, 97, 108, 111, 105, 100, 32, 77, 111, 116, 105, 111, 110, 32,
      68, 97, 116, 97, 32, 48, 48, 48, 50>>

\* bytes.startswith(prefix)
StartsWith(data, prefix) ==
    /\ Len(data) >= Len(prefix)
    /\ SubSeq(data, 1, Len(prefix)) = prefix

\* A signature test that compares one byte too few
SignatureOkShort(signature) ==
    StartsWith(signature, SubSeq(SIGNATURE, 1, Len(SIGNATURE) - 1))

\* line 58: signature.startswith(_SIGNATURE)
SignatureOk(signature) == StartsWith(signature, SIGNATURE)

HEADER_SIZE == 50
BONE_ENTRY_SIZE == 111
MORPH_ENTRY_SIZE == 23
CAMERA_ENTRY_SIZE == 61
LIGHT_ENTRY_SIZE == 28
SHADOW_ENTRY_SIZE == 9

\* A zero-quaternion repair that is never applied
FixZeroQuaternionNever(r) == r

\* lines 134-136: all-zero quaternion -> identity
FixZeroQuaternion(r) ==
    IF FloatIsZero(r[1]) /\ FloatIsZero(r[2]) /\ FloatIsZero(r[3]) /\ FloatIsZero(r[4])
    THEN <<r[1], r[2], r[3], FloatOne>>
    ELSE r

\* A bone record decoded with the Y and Z components of the location swapped
DecodeBoneKeyframeSwapped(b, p) ==
    [bone_name |-> ReadText(Slice(b, p, p + 15)),
     frame |-> U32At(b, p + 15),
     location |-> <<F32At(b, p + 19), F32At(b, p + 27), F32At(b, p + 23)>>,
     rotation |-> FixZeroQuaternion(<<F32At(b, p + 31), F32At(b, p + 35),
                                      F32At(b, p + 39), F32At(b, p + 43)>>),
     interpolation |-> Slice(b, p + 47, p + 111)]

\* lines 123-146: the record at offset p
DecodeBoneKeyframe(b, p) ==
    [bone_name |-> ReadText(Slice(b, p, p + 15)),
     frame |-> U32At(b, p + 15),
     location |-> <<F32At(b, p + 19), F32At(b, p + 23), F32At(b, p + 27)>>,
     rotation |-> FixZeroQuaternion(<<F32At(b, p + 31), F32At(b, p + 35),
                                      F32At(b, p + 39), F32At(b, p + 43)>>),
     interpolation |-> Slice(b, p + 47, p + 111)]

\* lines 169-181
DecodeMorphKeyframe(b, p) ==
    [morph_name |-> ReadText(Slice(b, p, p + 15)),
     frame |-> U32At(b, p + 15),
     weight |-> F32At(b, p + 19)]

\* lines 205-229
DecodeCameraKeyframe(b, p) ==
    [frame |-> U32At(b, p),
     distance |-> F32At(b, p + 4),
     location |-> <<F32At(b, p + 8), F32At(b, p + 12), F32At(b, p + 16)>>,
     rotation |-> <<F32At(b, p + 20), F32At(b, p + 24), F32At(b, p + 28)>>,
     interpolation |-> Slice(b, p + 32, p + 56),
     fov |-> U32At(b, p + 56),
     orthographic |-> I8At(b, p + 60) # 0]

\* A bone loop that only checks that the name field is there
BoneTruncatedNameOnly(b, p) == p + 15 > Len(b)

\* line 119
BoneTruncated(b, p) == p + 15 + 4 + 12 + 16 + 64 > Len(b)

\* line 163
MorphTruncated(b, p) == p + 15 + 4 + 4 > Len(b)

\* line 198
CameraTruncated(b, p) == p + 61 > Len(b)

\* lines 283-291: the IK states of one property keyframe, read from offset p;
\* returns the list and the cursor
RECURSIVE ReadIkStates(_, _, _, _, _)
ReadIkStates(b, p, ik_count, n, acc) ==
    IF ~U32Gt(ik_count, n) THEN [ik_states |-> acc, pos |-> p]
    ELSE IF p + 21 > Len(b) THEN [ik_states |-> acc, pos |-> p]
    ELSE ReadIkStates(b, p + 21, ik_count, n + 1,
                      Append(acc, <<ReadText(Slice(b, p, p + 20)), U8At(b, p + 20) # 0>>))

NoCount == [lo |-> 0, hi |-> 0]

\* lines 53-64: the header checks
VmdParseHeader ==
    /\ vpc = "header"
    /\ IF Len(buf) < HEADER_SIZE
       THEN /\ vresult' = "ValueError: File too small for VMD header"
            /\ vpc' = "error"
            /\ UNCHANGED <<pos, model_name>>
       ELSE IF ~SignatureOk(Slice(buf, 0, 30))
       THEN /\ vresult' = "ValueError: Not a VMD file (bad signature)"
            /\ vpc' = "error"
            /\ UNCHANGED <<pos, model_name>>
       ELSE /\ model_name' = ReadText(Slice(buf, 30, 50))
            /\ pos' = HEADER_SIZE
            /\ vpc' = "bone_count"
            /\ UNCHANGED vresult
    /\ UNCHANGED <<buf, count, idx, bone_keyframes, morph_keyframes, camera_keyframes,
                   property_keyframes>>
    /\ UNCHANGED notVmd

\* The section after each section, in the order of lines 68-84
NextSection(sec) ==
    CASE sec = "bone" -> "morph_count"
      [] sec = "morph" -> "camera_count"
      [] sec = "camera" -> "light"
      [] sec = "property" -> "return"

\* lines 107-111, 155-159, 190-194, 257-261: the count of a section, or the
\* early return of an empty list when fewer than 4 bytes remain
ReadCount(sec) ==
    /\ vpc = sec \o "_count"
    /\ IF pos + 4 > Len(buf)
       THEN /\ vpc' = NextSection(sec)
            /\ UNCHANGED <<pos, count, idx>>
       ELSE /\ count' = U32At(buf, pos)
            /\ pos' = pos + 4
            /\ idx' = 0
            /\ vpc' = sec \o "_loop"
    /\ UNCHANGED <<buf, model_name, bone_keyframes, morph_keyframes, camera_keyframes,
                   property_keyframes, vresult>>
    /\ UNCHANGED notVmd

ReadBoneCount == ReadCount("bone")
ReadMorphCount == ReadCount("morph")
ReadCameraCount == ReadCount("camera")
ReadPropertyCount == ReadCount("property")

\* struct.error raised by an unpack_from past the end of the buffer
RaiseStructError ==
    /\ vresult' = "struct.error"
    /\ vpc' = "error"
    /\ UNCHANGED <<buf, pos, count, idx, model_name, bone_keyframes, morph_keyframes,
                   camera_keyframes, property_keyframes>>

\* lines 118-146: one iteration of the bone loop that reads a record
ReadBoneKeyframe ==
    /\ vpc = "bone_loop"
    /\ U32Gt(count, idx)
    /\ ~BoneTruncated(buf, pos)
    /\ IF ~CanUnpack(buf, pos + 15, 32)
       THEN RaiseStructError
       ELSE /\ bone_keyframes' = Append(bone_keyframes, DecodeBoneKeyframe(buf, pos))
            /\ pos' = pos + 15 + (4 + 12 + 16) + 64
            /\ idx' = idx + 1
            /\ UNCHANGED <<buf, vpc, count, model_name, morph_keyframes, camera_keyframes,
                           property_keyframes, vresult>>
    /\ UNCHANGED notVmd

\* lines 118-121, 148: the bone loop ends (count reached, or truncated: break)
EndBoneKeyframes ==
    /\ vpc = "bone_loop"
    /\ ~U32Gt(count, idx) \/ BoneTruncated(buf, pos)
    /\ vpc' = NextSection("bone")
    /\ UNCHANGED <<buf, pos, count, idx, model_name, bone_keyframes, morph_keyframes,
                   camera_keyframes, property_keyframes, vresult>>
    /\ UNCHANGED notVmd

\* lines 162-181: one iteration of the morph loop that reads a record
ReadMorphKeyframe ==
    /\ vpc = "morph_loop"
    /\ U32Gt(count, idx)
    /\ ~MorphTruncated(buf, pos)
    /\ IF ~CanUnpack(buf, pos + 15, 8)
       THEN RaiseStructError
       ELSE /\ morph_keyframes' = Append(morph_keyframes, DecodeMorphKeyframe(buf, pos))
            /\ pos' = pos + 15 + 8
            /\ idx' = idx + 1
            /\ UNCHANGED <<buf, vpc, count, model_name, bone_keyframes, camera_keyframes,
                           property_keyframes, vresult>>
    /\ UNCHANGED notVmd

\* lines 162-167, 183
EndMorphKeyframes ==
    /\ vpc = "morph_loop"
    /\ ~U32Gt(count, idx) \/ MorphTruncated(buf, pos)
    /\ vpc' = NextSection("morph")
    /\ UNCHANGED <<buf, pos, count, idx, model_name, bone_keyframes, morph_keyframes,
                   camera_keyframes, property_keyframes, vresult>>
    /\ UNCHANGED notVmd

\* lines 197-229: one iteration of the camera loop that reads a record
ReadCameraKeyframe ==
    /\ vpc = "camera_loop"
    /\ U32Gt(count, idx)
    /\ ~CameraTruncated(buf, pos)
    /\ IF ~CanUnpack(buf, pos, 32) \/ ~CanUnpack(buf, pos + 32 + 24, 5)
       THEN RaiseStructError
       ELSE /\ camera_keyframes' = Append(camera_keyframes, DecodeCameraKeyframe(buf, pos))
            /\ pos' = pos + (4 + 4 + 12 + 12) + 24 + 5
            /\ idx' = idx + 1
            /\ UNCHANGED <<buf, vpc, count, model_name, bone_keyframes, morph_keyframes,
                           property_keyframes, vresult>>
    /\ UNCHANGED notVmd

\* lines 197-203, 231
EndCameraKeyframes ==
    /\ vpc = "camera_loop"
    /\ ~U32Gt(count, idx) \/ CameraTruncated(buf, pos)
    /\ vpc' = NextSection("camera")
    /\ UNCHANGED <<buf, pos, count, idx, model_name, bone_keyframes, morph_keyframes,
                   camera_keyframes, property_keyframes, vresult>>
    /\ UNCHANGED notVmd

\* A skip that passes over the count field only
SkipCountOnly(b, p, entry_size) == IF p + 4 > Len(b) THEN p ELSE p + 4

\* A skip that does not cap the cursor at the end of the buffer
SkipSectionUncapped(b, p, entry_size) ==
    IF p + 4 > Len(b) THEN p
    ELSE p + 4 + U32Min(U32At(b, p), Len(b)) * entry_size

\* lines 234-241: _skip_section
SkipSectionPos(b, p, entry_size) ==
    IF p + 4 > Len(b) THEN p
    ELSE AdvanceCapped(p + 4, U32At(b, p), entry_size, Len(b))

\* line 78
SkipLight ==
    /\ vpc = "light"
    /\ pos' = SkipSectionPos(buf, pos, LIGHT_ENTRY_SIZE)
    /\ vpc' = "shadow"
    /\ UNCHANGED <<buf, count, idx, model_name, bone_keyframes, morph_keyframes,
                   camera_keyframes, property_keyframes, vresult>>
    /\ UNCHANGED notVmd

\* line 81
SkipShadow ==
    /\ vpc = "shadow"
    /\ pos' = SkipSectionPos(buf, pos, SHADOW_ENTRY_SIZE)
    /\ vpc' = "property_count"
    /\ UNCHANGED <<buf, count, idx, model_name, bone_keyframes, morph_keyframes,
                   camera_keyframes, property_keyframes, vresult>>
    /\ UNCHANGED notVmd

\* lines 264-299: one iteration of the property loop that gets past the first
\* truncation test; it either appends a keyframe, or breaks after the frame
\* and visibility fields when the IK count is not there
ReadPropertyKeyframe ==
    /\ vpc = "property_loop"
    /\ U32Gt(count, idx)
    /\ pos + 5 <= Len(buf)
    /\ IF pos + 5 + 4 > Len(buf)
       THEN /\ pos' = pos + 5
            /\ vpc' = NextSection("property")
            /\ UNCHANGED <<idx, property_keyframes>>
       ELSE LET ik == ReadIkStates(buf, pos + 9, U32At(buf, pos + 5), 0, <<>>)
            IN /\ property_keyframes' =
                      Append(property_keyframes,
                             [frame |-> U32At(buf, pos),
                              visible |-> U8At(buf, pos + 4) # 0,
                              ik_states |-> ik.ik_states])
               /\ pos' = ik.pos
               /\ idx' = idx + 1
               /\ UNCHANGED vpc
    /\ UNCHANGED <<buf, count, model_name, bone_keyframes, morph_keyframes,
                   camera_keyframes, vresult>>
    /\ UNCHANGED notVmd

\* lines 264-270, 301
EndPropertyKeyframes ==
    /\ vpc = "property_loop"
    /\ ~U32Gt(count, idx) \/ pos + 5 > Len(buf)
    /\ vpc' = NextSection("property")
    /\ UNCHANGED <<buf, pos, count, idx, model_name, bone_keyframes, morph_keyframes,
                   camera_keyframes, property_keyframes, vresult>>
    /\ UNCHANGED notVmd

\* lines 94-100: return VmdMotion(...)
VmdReturn ==
    /\ vpc = "return"
    /\ vresult' = "VmdMotion"
    /\ vpc' = "done"
    /\ UNCHANGED <<buf, pos, count, idx, model_name, bone_keyframes, morph_keyframes,
                   camera_keyframes, property_keyframes>>
    /\ UNCHANGED notVmd

VmdNext ==
    \/ VmdParseHeader
    \/ ReadBoneCount \/ ReadBoneKeyframe \/ EndBoneKeyframes
    \/ ReadMorphCount \/ ReadMorphKeyframe \/ EndMorphKeyframes
    \/ ReadCameraCount \/ ReadCameraKeyframe \/ EndCameraKeyframes
    \/ SkipLight \/ SkipShadow
    \/ ReadPropertyCount \/ ReadPropertyKeyframe \/ EndPropertyKeyframes
    \/ VmdReturn

(***************************************************************************)
(* VMD input files                                                         *)
(***************************************************************************)
\* Bound: the number of records per section of the generated files
MaxRecords == 1

Zeros(n) == [i \in 1..n |-> 0]
PadTo(s, n) == s \o Zeros(n - Len(s))
LE32(n) == <<n % 256, (n \div 256) % 256, (n \div 65536) % 256, n \div 16777216>>
AllOnes32 == <<255, 255, 255, 255>>

\* float32 bit patterns, little-endian
F_ZERO == <<0, 0, 0, 0>>
F_NEGZERO == <<0, 0, 0, 128>>
F_ONE == <<0, 0, 128, 63>>
F_TWO == <<0, 0, 0, 64>>
F_HALF == <<0, 0, 0, 63>>
F_DENORMAL == <<1, 0, 0, 0>>

QuatKinds == {"identity", "zero", "negzero", "mixedzero", "xonly", "denormal"}

QuatBytes(q) ==
    CASE q = "identity" -> F_ZERO \o F_ZERO \o F_ZERO \o F_ONE
      [] q = "zero" -> F_ZERO \o F_ZERO \o F_ZERO \o F_ZERO
      [] q = "negzero" -> F_NEGZERO \o F_NEGZERO \o F_NEGZERO \o F_NEGZERO
      [] q = "mixedzero" -> F_ZERO \o F_NEGZERO \o F_ZERO \o F_NEGZERO
      [] q = "xonly" -> F_ONE \o F_ZERO \o F_ZERO \o F_ZERO
      [] q = "denormal" -> F_ZERO \o F_ZERO \o F_ZERO \o F_DENORMAL

BoneRecordBytes(k, q) ==
    PadTo(<<66, 48 + k>>, 15) \o LE32(10 * k) \o F_ONE \o F_TWO \o F_HALF
    \o QuatBytes(q) \o [i \in 1..64 |-> (i * k) % 128]

MorphRecordBytes(k) == PadTo(<<77, 48 + k>>, 15) \o LE32(k) \o F_HALF

CameraRecordBytes(k) ==
    LE32(k) \o F_TWO \o F_ONE \o F_TWO \o F_HALF \o F_HALF \o F_ZERO \o F_ONE
    \o [i \in 1..24 |-> 20 + i] \o LE32(30) \o <<k % 2>>

IkStateBytes(j) == PadTo(<<73, 48 + j>>, 20) \o <<j % 2>>

\* property record k holds k IK states
PropertyRecordBytes(k) ==
    LE32(k) \o <<1>> \o LE32(k) \o Concat([j \in 1..k |-> IkStateBytes(j)])

VmdHeaderBytes == PadTo(SIGNATURE, 30) \o PadTo(<<84, 101, 115, 116>>, 20)

SectionBytes(n, rec(_)) == LE32(n) \o Concat([k \in 1..n |-> rec(k)])

BoneRec(q, k) == BoneRecordBytes(k, q)
LightRecordBytes(k) == [i \in 1..28 |-> 7]
ShadowRecordBytes(k) == [i \in 1..9 |-> 9]

\* A complete file with c.bone, c.morph, ... records; bone quaternions of kind q
BuildVmd(c, q) ==
    VmdHeaderBytes
    \o LE32(c.bone) \o Concat([k \in 1..c.bone |-> BoneRecordBytes(k, q)])
    \o SectionBytes(c.morph, MorphRecordBytes)
    \o SectionBytes(c.camera, CameraRecordBytes)
    \o SectionBytes(c.light, LightRecordBytes)
    \o SectionBytes(c.shadow, ShadowRecordBytes)
    \o SectionBytes(c.property, PropertyRecordBytes)

VmdSections == {"bone", "morph", "camera", "light", "shadow", "property"}
VmdCounts == [VmdSections -> 0..MaxRecords]
FullCounts == [s \in VmdSections |-> MaxRecords]
FullVmd == BuildVmd(FullCounts, "identity")

\* Offsets of the count fields of FullVmd (the last one is the IK count of the
\* first property record)
BoneCountAt == HEADER_SIZE
MorphCountAt == BoneCountAt + 4 + BONE_ENTRY_SIZE * MaxRecords
CameraCountAt == MorphCountAt + 4 + MORPH_ENTRY_SIZE * MaxRecords
LightCountAt == CameraCountAt + 4 + CAMERA_ENTRY_SIZE * MaxRecords
ShadowCountAt == LightCountAt + 4 + LIGHT_ENTRY_SIZE * MaxRecords
PropertyCountAt == ShadowCountAt + 4 + SHADOW_ENTRY_SIZE * MaxRecords
FirstIkCountAt == PropertyCountAt + 4 + 5
CountFields == {BoneCountAt, MorphCountAt, CameraCountAt, LightCountAt, ShadowCountAt,
                PropertyCountAt, FirstIkCountAt}

\* b with the bytes at offset p.. replaced by v
SetBytes(b, p, v) ==
    [i \in 1..Len(b) |-> IF i > p /\ i <= p + Len(v) THEN v[i - p] ELSE b[i]]

BigCounts == {LE32(MaxRecords + 1), LE32(255), AllOnes32}

\* More than MaxRecords bone and property records, around light and shadow
\* sections that are empty or not
LongCounts ==
    {[bone |-> MaxRecords + 1, morph |-> 0, camera |-> 0, light |-> l, shadow |-> s,
      property |-> MaxRecords + 1] : l \in {0, MaxRecords + 1}, s \in {0, MaxRecords + 1}}

\* A file cut inside the second of two declared bone records: one whole record
\* and the first 30 bytes of the next
DamagedTail ==
    VmdHeaderBytes \o LE32(2) \o BoneRecordBytes(1, "identity")
    \o SubSeq(BoneRecordBytes(2, "identity"), 1, 30)

VmdInputs ==
    \* complete files
    {BuildVmd(c, "identity") : c \in VmdCounts}
    \cup {BuildVmd(FullCounts, q) : q \in QuatKinds}
    \* every prefix of the full file (the short ones fail the header check)
    \cup {SubSeq(FullVmd, 1, t) : t \in 0..Len(FullVmd)}
    \* a count field that declares more than the file holds
    \cup {SetBytes(FullVmd, p, v) : p \in CountFields, v \in BigCounts}
    \cup {SubSeq(SetBytes(FullVmd, p, AllOnes32), 1, t) :
             p \in CountFields, t \in HEADER_SIZE..Len(FullVmd)}
    \* signature and padding damage
    \cup {SetBytes(FullVmd, p, <<1>>) : p \in {0, 24, 25, 29}}
    \cup {PadTo(<<78, 111, 116>>, 64)}
    \* complete files with several bone and property records
    \cup {BuildVmd(c, "xonly") : c \in LongCounts}
    \cup {DamagedTail}

VmdInit ==
    /\ buf \in VmdInputs
    /\ pos = 0
    /\ vpc = "header"
    /\ count = NoCount
    /\ idx = 0
    /\ model_name = <<>>
    /\ bone_keyframes = <<>>
    /\ morph_keyframes = <<>>
    /\ camera_keyframes = <<>>
    /\ property_keyframes = <<>>
    /\ vresult = "none"

(***************************************************************************)
(* pmx/parser.py: _Reader                                                  *)
(***************************************************************************)
\* A reader value is the state of a _Reader while one step of parse runs:
\* the cursor of the file, the exception raised (NoExc while none is), the
\* header given to set_header and the reads made.  Every read operator takes a
\* reader and returns [r |-> the reader afterwards, v |-> the value read]; a
\* read on a reader that has raised does nothing, as the Python code after a
\* raise is not run.
NoExc == "none"
EOFError == "EOFError"
ReadValueError == "ValueError: read length must be non-negative or -1"

Reader(p, h) == [pos |-> p, exc |-> NoExc, header |-> h, log |-> <<>>]
Ok(r) == r.exc = NoExc
Raise(r, e) == IF Ok(r) THEN [r EXCEPT !.exc = e] ELSE r
\* (the value is listed first: its parts are then computed in the order read)
Ret(r, v) == [v |-> v, r |-> r]

RECURSIVE Call(_, _)

\* self._f.read(n) at cursor p: up to n bytes, or all the rest for n = -1
FileRead(p, n) ==
    IF n = -1 THEN SubSeq(fbytes, p + 1, Len(fbytes))
    ELSE SubSeq(fbytes, p + 1, IF Len(fbytes) - p < n THEN Len(fbytes) ELSE p + n)

\* The exception of a read that tolerates a short result
ShortReadTolerated(data, n) == NoExc

\* lines 74-75: if len(data) != n: raise EOFError
ShortRead(data, n) == IF Len(data) # n THEN EOFError ELSE NoExc

\* read_bytes called by the primitive op (op = "bytes" for a direct call)
ReadBytesAs(r, n, op) ==
    IF ~Ok(r) THEN Ret(r, <<>>)
    ELSE IF n < -1
    THEN Ret([r EXCEPT !.exc = ReadValueError,
                       !.log = Append(@, [op |-> op, at |-> r.pos, n |-> n, got |-> 0])],
             <<>>)
    ELSE LET data == FileRead(r.pos, n)
         IN Ret([r EXCEPT !.pos = r.pos + Len(data),
                          !.exc = ShortRead(data, n),
                          !.log = Append(@, [op |-> op, at |-> r.pos, n |-> n,
                                             got |-> Len(data)])],
                data)

\* lines 72-76
ReadBytes(r, n) == ReadBytesAs(r, n, "bytes")

\* struct.calcsize of the formats of lines 78-108
StructSize ==
    [int8 |-> 1, uint8 |-> 1, int16 |-> 2, uint16 |-> 2, int32 |-> 4, uint32 |-> 4,
     float |-> 4, vec2 |-> 8, vec3 |-> 12, vec4 |-> 16]

\* The bytes handed to struct.unpack by the primitive op.  After a raise the
\* value is never used; it is zero bytes of the format's size.
ReadStruct(r, op) ==
    LET res == ReadBytesAs(r, StructSize[op], op)
    IN IF ~Ok(r) THEN Ret(r, Zeros(StructSize[op]))
       ELSE Ret(res.r, IF Len(res.v) = StructSize[op] THEN res.v
                       ELSE Zeros(StructSize[op]))

\* struct.unpack of "<b", "<B", "<h", "<H", "<i", "<I"
UnpackU8(b) == b[1]
UnpackI8(b) == IF b[1] >= 128 THEN b[1] - 256 ELSE b[1]
UnpackU16(b) == b[1] + 256 * b[2]
UnpackI16(b) == IF b[2] >= 128 THEN UnpackU16(b) - 65536 ELSE UnpackU16(b)
UnpackI32(b) ==
    b[1] + 256 * b[2] + 65536 * b[3]
    + 16777216 * (IF b[4] >= 128 THEN b[4] - 256 ELSE b[4])

\* lines 78-108
ReadInt8(r) == LET d == ReadStruct(r, "int8") IN Ret(d.r, UnpackI8(d.v))
ReadUint8(r) == LET d == ReadStruct(r, "uint8") IN Ret(d.r, UnpackU8(d.v))
ReadInt16(r) == LET d == ReadStruct(r, "int16") IN Ret(d.r, UnpackI16(d.v))
ReadUint16(r) == LET d == ReadStruct(r, "uint16") IN Ret(d.r, UnpackU16(d.v))
ReadInt32(r) == LET d == ReadStruct(r, "int32") IN Ret(d.r, UnpackI32(d.v))
ReadUint32(r) == LET d == ReadStruct(r, "uint32") IN Ret(d.r, U32At(d.v, 0))
ReadFloat(r) == LET d == ReadStruct(r, "float") IN Ret(d.r, F32At(d.v, 0))
ReadVec2(r) ==
    LET d == ReadStruct(r, "vec2") IN Ret(d.r, <<F32At(d.v, 0), F32At(d.v, 4)>>)
ReadVec3(r) ==
    LET d == ReadStruct(r, "vec3")
    IN Ret(d.r, <<F32At(d.v, 0), F32At(d.v, 4), F32At(d.v, 8)>>)
ReadVec4(r) ==
    LET d == ReadStruct(r, "vec4")
    IN Ret(d.r, <<F32At(d.v, 0), F32At(d.v, 4), F32At(d.v, 8), F32At(d.v, 12)>>)

\* bytes.decode(encoding, errors="replace") never raises; what the codec makes
\* of the bytes is left symbolic
Decode(data, encoding) == [encoding |-> encoding, data |-> data]
EmptyStr == [encoding |-> "", data |-> <<>>]

\* lines 110-116
ReadTextPmx(r) ==
    LET length == Call(r, "ReadInt32")
        data == ReadBytes(length.r, length.v)
    IN IF ~Ok(r) THEN Ret(r, EmptyStr)
       ELSE IF ~Ok(length.r) \/ length.v = 0 THEN Ret(length.r, EmptyStr)
       ELSE Ret(data.r, Decode(data.v, r.header.encoding))

\* An unsigned integer below 2^16 in the representation of U32At
U32Of(n) == [lo |-> n, hi |-> 0]

\* A signed index read with the unsigned formats of the one- and two-byte widths
ReadSignedIndexAsUnsigned(r, size) ==
    IF size = 1 THEN Call(r, "ReadUint8")
    ELSE IF size = 2 THEN Call(r, "ReadUint16")
    ELSE Call(r, "ReadInt32")

\* lines 120-126
ReadSignedIndex(r, size) ==
    IF size = 1 THEN Call(r, "ReadInt8")
    ELSE IF size = 2 THEN Call(r, "ReadInt16")
    ELSE Call(r, "ReadInt32")

\* lines 130-136
ReadUnsignedIndex(r, size) ==
    IF size = 1 THEN LET d == Call(r, "ReadUint8") IN Ret(d.r, U32Of(d.v))
    ELSE IF size = 2 THEN LET d == Call(r, "ReadUint16") IN Ret(d.r, U32Of(d.v))
    ELSE Call(r, "ReadUint32")

\* lines 140-162
ReadVertexIndex(r) == ReadUnsignedIndex(r, r.header.vertex_index_size)
ReadBoneIndex(r) == ReadSignedIndex(r, r.header.bone_index_size)
ReadTextureIndex(r) == ReadSignedIndex(r, r.header.texture_index_size)
ReadMaterialIndex(r) == ReadSignedIndex(r, r.header.material_index_size)
ReadMorphIndex(r) == ReadSignedIndex(r, r.header.morph_index_size)
ReadRigidIndex(r) == ReadSignedIndex(r, r.header.rigid_index_size)

\* Conversions that also negate the component moved to the second place
PosNegated(x, y, z) == <<x, [z EXCEPT !.s = 1 - @], y>>
RotNegated(x, y, z) == <<x, [z EXCEPT !.s = 1 - @], y>>

\* lines 169-184
Pos(x, y, z) == <<x, z, y>>
Rot(x, y, z) == <<x, z, y>>
Pos3(v) == Pos(v[1], v[2], v[3])
Rot3(v) == Rot(v[1], v[2], v[3])

(***************************************************************************)
(* pmx/types.py: the IntEnum classes                                       *)
(***************************************************************************)
WeightType == 0..4
BDEF1 == 0
BDEF2 == 1
BDEF4 == 2
SDEF == 3
QDEF == 4
MorphCategory == 0..4
MorphType == 0..8
GROUP == 0
VERTEX == 1
BONE == 2
UVTypes == 3..7
MATERIAL == 8
RigidShape == 0..2
JointMode == {0}

\* An enum constructor that passes every value
EnumAny(res, members, cls) == res

\* Cls(value): ValueError unless value is a member
Enum(res, members, cls) ==
    IF Ok(res.r) /\ res.v \notin members
    THEN Ret(Raise(res.r, "ValueError: not a valid " \o cls), res.v)
    ELSE res

(***************************************************************************)
(* pmx/parser.py: section parsers                                          *)
(***************************************************************************)
\* b"PMX "
PMX_MAGIC == <<80, 77, 88, 32>>

\* struct.unpack("<f") returns the Python float (a double) that equals the
\* float32 exactly.  A double is kept as sign, biased exponent and the 52-bit
\* fraction split in its top 23 bits (hi) and low 29 bits (lo); a normal
\* float32 widens to the same sign and fraction bits with lo = 0.  The values
\* the parser never compares equal to a version literal (zeros, subnormals,
\* infinities, NaN) are kept by class only.
Widen(f) ==
    IF f.e = 255 THEN [class |-> IF f.m = 0 THEN "inf" ELSE "nan", s |-> f.s]
    ELSE IF f.e = 0 THEN [class |-> IF f.m = 0 THEN "zero" ELSE "subnormal", s |-> f.s]
    ELSE [class |-> "normal", s |-> f.s, e |-> f.e + 896, hi |-> f.m, lo |-> 0]

\* The literals 2.0 (0x4000000000000000) and 2.1 (0x4000CCCCCCCCCCCD)
Double_2_0 == [class |-> "normal", s |-> 0, e |-> 1024, hi |-> 0, lo |-> 0]
Double_2_1 == [class |-> "normal", s |-> 0, e |-> 1024, hi |-> 419430, lo |-> 214748365]

\* line 197: version in (2.0, 2.1)
VersionSupported(version) == Widen(version) \in {Double_2_0, Double_2_1}

NoHeader == [encoding |-> "none"]

\* A header that takes the texture and bone index widths from each other's
\* globals byte
ParseHeaderShifted(r) ==
    LET magic == ReadBytes(r, 4)
        version == Call(magic.r, "ReadFloat")
        globals_count == Call(version.r, "ReadUint8")
        globals_data == ReadBytes(globals_count.r, globals_count.v)
        g == globals_data.v
    IN IF ~Ok(magic.r) THEN Ret(magic.r, NoHeader)
       ELSE IF magic.v # PMX_MAGIC
       THEN Ret(Raise(magic.r, "ValueError: Not a PMX file"), NoHeader)
       ELSE IF ~Ok(version.r) THEN Ret(version.r, NoHeader)
       ELSE IF ~VersionSupported(version.v)
       THEN Ret(Raise(version.r, "ValueError: Unsupported PMX version"), NoHeader)
       ELSE IF ~Ok(globals_data.r) THEN Ret(globals_data.r, NoHeader)
       ELSE IF Len(g) < 8
       THEN Ret(Raise(globals_data.r, "IndexError: index out of range"), NoHeader)
       ELSE Ret(globals_data.r,
                [version |-> version.v,
                 encoding |-> IF g[1] = 1 THEN "utf-8" ELSE "utf-16-le",
                 additional_uv_count |-> g[2],
                 vertex_index_size |-> g[3],
                 texture_index_size |-> g[6],
                 material_index_size |-> g[5],
                 bone_index_size |-> g[4],
                 morph_index_size |-> g[7],
                 rigid_index_size |-> g[8]])

\* lines 191-217
ParseHeader(r) ==
    LET magic == ReadBytes(r, 4)
        version == Call(magic.r, "ReadFloat")
        globals_count == Call(version.r, "ReadUint8")
        globals_data == ReadBytes(globals_count.r, globals_count.v)
        g == globals_data.v
    IN IF ~Ok(magic.r) THEN Ret(magic.r, NoHeader)
       ELSE IF magic.v # PMX_MAGIC
       THEN Ret(Raise(magic.r, "ValueError: Not a PMX file"), NoHeader)
       ELSE IF ~Ok(version.r) THEN Ret(version.r, NoHeader)
       ELSE IF ~VersionSupported(version.v)
       THEN Ret(Raise(version.r, "ValueError: Unsupported PMX version"), NoHeader)
       ELSE IF ~Ok(globals_data.r) THEN Ret(globals_data.r, NoHeader)
       ELSE IF Len(g) < 8
       THEN Ret(Raise(globals_data.r, "IndexError: index out of range"), NoHeader)
       ELSE Ret(globals_data.r,
                [version |-> version.v,
                 encoding |-> IF g[1] = 1 THEN "utf-8" ELSE "utf-16-le",
                 additional_uv_count |-> g[2],
                 vertex_index_size |-> g[3],
                 texture_index_size |-> g[4],
                 material_index_size |-> g[5],
                 bone_index_size |-> g[6],
                 morph_index_size |-> g[7],
                 rigid_index_size |-> g[8]])

\* lines 225-227: for _ in range(additional_uv_count)
RECURSIVE ReadAdditionalUVs(_, _, _)
ReadAdditionalUVs(r, n, acc) ==
    IF n <= 0 \/ ~Ok(r) THEN Ret(r, acc)
    ELSE LET uv == Call(r, "ReadVec4") IN ReadAdditionalUVs(uv.r, n - 1, Append(acc, uv.v))

\* lines 242-243 and 258-259: four bone indices
ReadBones4(r) ==
    LET b1 == Call(r, "ReadBoneIndex")
        b2 == Call(b1.r, "ReadBoneIndex")
        b3 == Call(b2.r, "ReadBoneIndex")
        b4 == Call(b3.r, "ReadBoneIndex")
    IN Ret(b4.r, <<b1.v, b2.v, b3.v, b4.v>>)

\* lines 232-263
ParseWeight(r, weight_type) ==
    CASE weight_type = BDEF1 ->
           LET bone == Call(r, "ReadBoneIndex")
           IN Ret(bone.r, [class |-> "BoneWeightBDEF1", bone |-> bone.v])
      [] weight_type = BDEF2 ->
           LET bone1 == Call(r, "ReadBoneIndex")
               bone2 == Call(bone1.r, "ReadBoneIndex")
               weight == Call(bone2.r, "ReadFloat")
           IN Ret(weight.r, [class |-> "BoneWeightBDEF2", bone1 |-> bone1.v,
                             bone2 |-> bone2.v, weight |-> weight.v])
      [] weight_type = BDEF4 ->
           LET bones == Call(r, "ReadBones4")
               weights == Call(bones.r, "ReadVec4")
           IN Ret(weights.r, [class |-> "BoneWeightBDEF4", bones |-> bones.v,
                              weights |-> weights.v])
      [] weight_type = SDEF ->
           LET b1 == Call(r, "ReadBoneIndex")
               b2 == Call(b1.r, "ReadBoneIndex")
               w == Call(b2.r, "ReadFloat")
               c == Call(w.r, "ReadVec3")
               r0 == Call(c.r, "ReadVec3")
               r1 == Call(r0.r, "ReadVec3")
           IN Ret(r1.r, [class |-> "BoneWeightSDEF", bone1 |-> b1.v, bone2 |-> b2.v,
                         weight |-> w.v, c |-> Pos3(c.v), r0 |-> Pos3(r0.v),
                         r1 |-> Pos3(r1.v)])
      [] weight_type = QDEF ->
           LET bones == Call(r, "ReadBones4")
               weights == Call(bones.r, "ReadVec4")
           IN Ret(weights.r, [class |-> "BoneWeightQDEF", bones |-> bones.v,
                              weights |-> weights.v])
      [] OTHER -> Ret(Raise(r, "ValueError: Unknown weight type"), [class |-> "none"])

\* lines 220-275
ParseVertex(r) ==
    LET p == Call(r, "ReadVec3")
        n == Call(p.r, "ReadVec3")
        uv == Call(n.r, "ReadVec2")
        additional_uvs == ReadAdditionalUVs(uv.r, r.header.additional_uv_count, <<>>)
        weight_type == Enum(Call(additional_uvs.r, "ReadUint8"), WeightType, "WeightType")
        weight == ParseWeight(weight_type.r, weight_type.v)
        edge_scale == Call(weight.r, "ReadFloat")
    IN Ret(edge_scale.r,
           [position |-> Pos3(p.v), normal |-> Pos3(n.v), uv |-> uv.v,
            additional_uvs |-> additional_uvs.v, weight_type |-> weight_type.v,
            weight |-> weight.v, edge_scale |-> edge_scale.v])

\* line 281: [_parse_vertex(r, ...) for _ in range(count)]
RECURSIVE ParseVertexList(_, _, _)
ParseVertexList(r, n, acc) ==
    IF n <= 0 \/ ~Ok(r) THEN Ret(r, acc)
    ELSE LET x == Call(r, "ParseVertex") IN ParseVertexList(x.r, n - 1, Append(acc, x.v))

\* lines 278-281
ParseVertices(r) ==
    LET cnt == Call(r, "ReadInt32") IN ParseVertexList(cnt.r, cnt.v, <<>>)

\* A face loop that keeps the order of the file
RECURSIVE ReadFacesUnreversed(_, _, _)
ReadFacesUnreversed(r, n, acc) ==
    IF n <= 0 \/ ~Ok(r) THEN Ret(r, acc)
    ELSE LET f1 == Call(r, "ReadVertexIndex")
             f2 == Call(f1.r, "ReadVertexIndex")
             f3 == Call(f2.r, "ReadVertexIndex")
             face == Ret(f3.r, <<f1.v, f2.v, f3.v>>)
         IN ReadFacesUnreversed(face.r, n - 1, Append(acc, face.v))

\* lines 288-293: for _ in range(index_count // 3)
RECURSIVE ReadFaces(_, _, _)
ReadFaces(r, n, acc) ==
    IF n <= 0 \/ ~Ok(r) THEN Ret(r, acc)
    ELSE LET f1 == Call(r, "ReadVertexIndex")
             f2 == Call(f1.r, "ReadVertexIndex")
             f3 == Call(f2.r, "ReadVertexIndex")
             face == Ret(f3.r, <<f3.v, f2.v, f1.v>>)
         IN ReadFaces(face.r, n - 1, Append(acc, face.v))

\* A face section whose count is taken as the number of triangles
ParseFacesPerTriangle(r) ==
    LET index_count == Call(r, "ReadInt32")
    IN ReadFaces(index_count.r, index_count.v, <<>>)

\* lines 284-294
ParseFaces(r) ==
    LET index_count == Call(r, "ReadInt32")
    IN ReadFaces(index_count.r, index_count.v \div 3, <<>>)

\* line 300: [Texture(path=r.read_text()) for _ in range(count)]
RECURSIVE ParseTextureList(_, _, _)
ParseTextureList(r, n, acc) ==
    IF n <= 0 \/ ~Ok(r) THEN Ret(r, acc)
    ELSE LET path == Call(r, "ReadTextPmx")
         IN ParseTextureList(path.r, n - 1, Append(acc, [path |-> path.v]))

\* lines 297-300
ParseTextures(r) ==
    LET cnt == Call(r, "ReadInt32") IN ParseTextureList(cnt.r, cnt.v, <<>>)

\* lines 303-335
ParseMaterial(r) ==
    LET name == Call(r, "ReadTextPmx")
        name_e == Call(name.r, "ReadTextPmx")
        diffuse == Call(name_e.r, "ReadVec4")
        specular == Call(diffuse.r, "ReadVec3")
        shininess == Call(specular.r, "ReadFloat")
        ambient == Call(shininess.r, "ReadVec3")
        flags == Call(ambient.r, "ReadUint8")
        edge_color == Call(flags.r, "ReadVec4")
        edge_size == Call(edge_color.r, "ReadFloat")
        texture_index == Call(edge_size.r, "ReadTextureIndex")
        sphere_texture_index == Call(texture_index.r, "ReadTextureIndex")
        sphere_mode == Call(sphere_texture_index.r, "ReadUint8")
        toon_sharing == Call(sphere_mode.r, "ReadUint8")
        toon_texture_index == IF toon_sharing.v = 0 THEN Call(toon_sharing.r, "ReadTextureIndex")
                              ELSE Call(toon_sharing.r, "ReadUint8")
        comment == Call(toon_texture_index.r, "ReadTextPmx")
        face_count == Call(comment.r, "ReadInt32")
    IN Ret(face_count.r,
           [name |-> name.v, name_e |-> name_e.v, diffuse |-> diffuse.v,
            specular |-> specular.v, shininess |-> shininess.v, ambient |-> ambient.v,
            flags |-> flags.v, edge_color |-> edge_color.v, edge_size |-> edge_size.v,
            texture_index |-> texture_index.v,
            sphere_texture_index |-> sphere_texture_index.v,
            sphere_mode |-> sphere_mode.v, toon_sharing |-> toon_sharing.v,
            toon_texture_index |-> toon_texture_index.v, comment |-> comment.v,
            face_count |-> face_count.v])

\* line 341
RECURSIVE ParseMaterialList(_, _, _)
ParseMaterialList(r, n, acc) ==
    IF n <= 0 \/ ~Ok(r) THEN Ret(r, acc)
    ELSE LET x == Call(r, "ParseMaterial") IN ParseMaterialList(x.r, n - 1, Append(acc, x.v))

\* lines 338-341
ParseMaterials(r) ==
    LET cnt == Call(r, "ReadInt32") IN ParseMaterialList(cnt.r, cnt.v, <<>>)

\* flags & mask # 0 for mask = 2^k
Bit(flags, k) == (flags \div (2 ^ k)) % 2 = 1

None == [class |-> "None"]

\* lines 397-412: for _ in range(link_count)
RECURSIVE ReadIkLinks(_, _, _)
ReadIkLinks(r, n, acc) ==
    IF n <= 0 \/ ~Ok(r) THEN Ret(r, acc)
    ELSE LET link_bone == Call(r, "ReadBoneIndex")
             has_limits == Call(link_bone.r, "ReadUint8")
             mn == Call(has_limits.r, "ReadVec3")
             mx == Call(mn.r, "ReadVec3")
             link == Ret(IF has_limits.v # 0 THEN mx.r ELSE has_limits.r,
                         [bone_index |-> link_bone.v,
                          has_limits |-> has_limits.v # 0,
                          limit_min |-> IF has_limits.v # 0 THEN Rot3(mn.v) ELSE None,
                          limit_max |-> IF has_limits.v # 0 THEN Rot3(mx.v) ELSE None])
         IN ReadIkLinks(link.r, n - 1, Append(acc, link.v))

\* lines 392-412: the IK block
ReadIk(r) ==
    LET ik_target == Call(r, "ReadBoneIndex")
        ik_loop_count == Call(ik_target.r, "ReadInt32")
        ik_limit_angle == Call(ik_loop_count.r, "ReadFloat")
        link_count == Call(ik_limit_angle.r, "ReadInt32")
        ik_links == ReadIkLinks(link_count.r, link_count.v, <<>>)
    IN Ret(ik_links.r, [ik_target |-> ik_target.v, ik_loop_count |-> ik_loop_count.v,
                        ik_limit_angle |-> ik_limit_angle.v, ik_links |-> ik_links.v])

NoIk == [ik_target |-> None, ik_loop_count |-> None, ik_limit_angle |-> None,
         ik_links |-> None]

\* lines 352-357: if flags & 0x0001
ReadDisplayConnection(r, flags) ==
    IF Bit(flags, 0) THEN Call(r, "ReadBoneIndex")
    ELSE LET o == Call(r, "ReadVec3") IN Ret(o.r, Pos3(o.v))

\* An additional transform that is read once for each of bits 8 and 9
ReadAdditionalTransformPerBit(r, flags) ==
    LET first == IF Bit(flags, 8)
                 THEN LET bone_idx == Call(r, "ReadBoneIndex")
                          factor == Call(bone_idx.r, "ReadFloat")
                      IN Ret(factor.r, <<bone_idx.v, factor.v>>)
                 ELSE Ret(r, None)
    IN IF Bit(flags, 9)
       THEN LET bone_idx == Call(first.r, "ReadBoneIndex")
                factor == Call(bone_idx.r, "ReadFloat")
            IN Ret(factor.r, <<bone_idx.v, factor.v>>)
       ELSE first

\* lines 359-364: if flags & 0x0100 or flags & 0x0200
ReadAdditionalTransform(r, flags) ==
    IF Bit(flags, 8) \/ Bit(flags, 9)
    THEN LET bone_idx == Call(r, "ReadBoneIndex")
             factor == Call(bone_idx.r, "ReadFloat")
         IN Ret(factor.r, <<bone_idx.v, factor.v>>)
    ELSE Ret(r, None)

\* lines 366-370: if flags & 0x0400
ReadFixedAxis(r, flags) ==
    IF Bit(flags, 10)
    THEN LET a == Call(r, "ReadVec3") IN Ret(a.r, Pos3(a.v))
    ELSE Ret(r, None)

\* lines 372-379: if flags & 0x0800
ReadLocalAxis(r, flags) ==
    IF Bit(flags, 11)
    THEN LET lx == Call(r, "ReadVec3")
             lz == Call(lx.r, "ReadVec3")
         IN Ret(lz.r, <<Pos3(lx.v), Pos3(lz.v)>>)
    ELSE Ret(r, <<None, None>>)

\* lines 381-384: if flags & 0x2000
ReadExternalParent(r, flags) ==
    IF Bit(flags, 13) THEN Call(r, "ReadInt32") ELSE Ret(r, None)

\* lines 386-391: if flags & 0x0020
ReadIkBlock(r, flags) ==
    IF Bit(flags, 5) THEN Call(r, "ReadIk") ELSE Ret(r, NoIk)

\* lines 344-430
ParseBone(r) ==
    LET name == Call(r, "ReadTextPmx")
        name_e == Call(name.r, "ReadTextPmx")
        p == Call(name_e.r, "ReadVec3")
        parent == Call(p.r, "ReadBoneIndex")
        transform_order == Call(parent.r, "ReadInt32")
        flags == Call(transform_order.r, "ReadUint16")
        display_connection == ReadDisplayConnection(flags.r, flags.v)
        additional_transform == ReadAdditionalTransform(display_connection.r, flags.v)
        fixed_axis == ReadFixedAxis(additional_transform.r, flags.v)
        local_axis == ReadLocalAxis(fixed_axis.r, flags.v)
        external_parent == ReadExternalParent(local_axis.r, flags.v)
        ik == ReadIkBlock(external_parent.r, flags.v)
    IN Ret(ik.r,
           [name |-> name.v, name_e |-> name_e.v, position |-> Pos3(p.v),
            parent |-> parent.v, transform_order |-> transform_order.v,
            flags |-> flags.v, display_connection |-> display_connection.v,
            additional_transform |-> additional_transform.v,
            fixed_axis |-> fixed_axis.v,
            local_axis_x |-> local_axis.v[1], local_axis_z |-> local_axis.v[2],
            external_parent |-> external_parent.v,
            ik_target |-> ik.v.ik_target, ik_loop_count |-> ik.v.ik_loop_count,
            ik_limit_angle |-> ik.v.ik_limit_angle, ik_links |-> ik.v.ik_links])

\* line 436
RECURSIVE ParseBoneList(_, _, _)
ParseBoneList(r, n, acc) ==
    IF n <= 0 \/ ~Ok(r) THEN Ret(r, acc)
    ELSE LET x == Call(r, "ParseBone") IN ParseBoneList(x.r, n - 1, Append(acc, x.v))

\* lines 433-436
ParseBones(r) ==
    LET cnt == Call(r, "ReadInt32") IN ParseBoneList(cnt.r, cnt.v, <<>>)

\* -x for a float x
FloatNeg(x) == [x EXCEPT !.s = 1 - @]
FloatZero == [s |-> 0, e |-> 0, m |-> 0]

\* A bone-morph quaternion that is converted without the zero test
MorphQuaternionUnfixed(q) == <<q[1], q[3], FloatNeg(q[2]), q[4]>>

\* lines 464-470: the zero test, then (qx, qz, -qy, qw)
MorphQuaternion(q) ==
    LET f == IF FloatIsZero(q[1]) /\ FloatIsZero(q[2]) /\ FloatIsZero(q[3])
                /\ FloatIsZero(q[4])
             THEN <<FloatZero, FloatZero, FloatZero, FloatOne>>
             ELSE q
    IN <<f[1], f[3], FloatNeg(f[2]), f[4]>>

\* lines 449-493: one offset of a morph of type morph_type
ParseMorphOffset(r, morph_type) ==
    CASE morph_type = GROUP ->
           LET morph_index == Call(r, "ReadMorphIndex")
               factor == Call(morph_index.r, "ReadFloat")
           IN Ret(factor.r, [class |-> "GroupMorphOffset",
                             morph_index |-> morph_index.v, factor |-> factor.v])
      [] morph_type = VERTEX ->
           LET vi == Call(r, "ReadVertexIndex")
               o == Call(vi.r, "ReadVec3")
           IN Ret(o.r, [class |-> "VertexMorphOffset", vertex_index |-> vi.v,
                        offset |-> Pos3(o.v)])
      [] morph_type = BONE ->
           LET bi == Call(r, "ReadBoneIndex")
               l == Call(bi.r, "ReadVec3")
               q == Call(l.r, "ReadVec4")
           IN Ret(q.r, [class |-> "BoneMorphOffset", bone_index |-> bi.v,
                        location |-> Pos3(l.v), rotation |-> MorphQuaternion(q.v)])
      [] morph_type \in UVTypes ->
           LET vertex_index == Call(r, "ReadVertexIndex")
               offset == Call(vertex_index.r, "ReadVec4")
           IN Ret(offset.r, [class |-> "UVMorphOffset",
                             vertex_index |-> vertex_index.v, offset |-> offset.v])
      [] morph_type = MATERIAL ->
           LET material_index == Call(r, "ReadMaterialIndex")
               blend_mode == Call(material_index.r, "ReadUint8")
               diffuse == Call(blend_mode.r, "ReadVec4")
               specular == Call(diffuse.r, "ReadVec3")
               shininess == Call(specular.r, "ReadFloat")
               ambient == Call(shininess.r, "ReadVec3")
               edge_color == Call(ambient.r, "ReadVec4")
               edge_size == Call(edge_color.r, "ReadFloat")
               texture_factor == Call(edge_size.r, "ReadVec4")
               sphere_texture_factor == Call(texture_factor.r, "ReadVec4")
               toon_texture_factor == Call(sphere_texture_factor.r, "ReadVec4")
           IN Ret(toon_texture_factor.r,
                  [class |-> "MaterialMorphOffset",
                   material_index |-> material_index.v, blend_mode |-> blend_mode.v,
                   diffuse |-> diffuse.v, specular |-> specular.v,
                   shininess |-> shininess.v, ambient |-> ambient.v,
                   edge_color |-> edge_color.v, edge_size |-> edge_size.v,
                   texture_factor |-> texture_factor.v,
                   sphere_texture_factor |-> sphere_texture_factor.v,
                   toon_texture_factor |-> toon_texture_factor.v])
      [] OTHER -> Ret(r, None)

\* A loop that runs offset_count + 1 times
RECURSIVE ReadMorphOffsetsInclusive(_, _, _, _)
ReadMorphOffsetsInclusive(r, morph_type, n, acc) ==
    IF n < 0 \/ ~Ok(r) THEN Ret(r, acc)
    ELSE LET x == ParseMorphOffset(r, morph_type)
         IN ReadMorphOffsetsInclusive(x.r, morph_type, n - 1, Append(acc, x.v))

\* lines 447-493: for _ in range(offset_count)
RECURSIVE ReadMorphOffsets(_, _, _, _)
ReadMorphOffsets(r, morph_type, n, acc) ==
    IF n <= 0 \/ ~Ok(r) THEN Ret(r, acc)
    ELSE LET x == ParseMorphOffset(r, morph_type)
         IN ReadMorphOffsets(x.r, morph_type, n - 1, Append(acc, x.v))

\* lines 439-499
ParseMorph(r) ==
    LET name == Call(r, "ReadTextPmx")
        name_e == Call(name.r, "ReadTextPmx")
        category == Enum(Call(name_e.r, "ReadUint8"), MorphCategory, "MorphCategory")
        morph_type == Enum(Call(category.r, "ReadUint8"), MorphType, "MorphType")
        offset_count == Call(morph_type.r, "ReadInt32")
        offsets == ReadMorphOffsets(offset_count.r, morph_type.v, offset_count.v, <<>>)
    IN Ret(offsets.r, [name |-> name.v, name_e |-> name_e.v, category |-> category.v,
                       morph_type |-> morph_type.v, offsets |-> offsets.v])

\* line 505
RECURSIVE ParseMorphList(_, _, _)
ParseMorphList(r, n, acc) ==
    IF n <= 0 \/ ~Ok(r) THEN Ret(r, acc)
    ELSE LET x == Call(r, "ParseMorph") IN ParseMorphList(x.r, n - 1, Append(acc, x.v))

\* lines 502-505
ParseMorphs(r) ==
    LET cnt == Call(r, "ReadInt32") IN ParseMorphList(cnt.r, cnt.v, <<>>)

\* lines 518-524: for _ in range(item_count)
RECURSIVE ReadDisplayItems(_, _, _)
ReadDisplayItems(r, n, acc) ==
    IF n <= 0 \/ ~Ok(r) THEN Ret(r, acc)
    ELSE LET display_type == Call(r, "ReadUint8")
             index == IF display_type.v = 0 THEN Call(display_type.r, "ReadBoneIndex")
                      ELSE Call(display_type.r, "ReadMorphIndex")
             item == Ret(index.r, [display_type |-> display_type.v,
                                   index |-> index.v])
         IN ReadDisplayItems(item.r, n - 1, Append(acc, item.v))

\* lines 512-528: for _ in range(count)
RECURSIVE ReadDisplayFrames(_, _, _)
ReadDisplayFrames(r, n, acc) ==
    IF n <= 0 \/ ~Ok(r) THEN Ret(r, acc)
    ELSE LET name == Call(r, "ReadTextPmx")
             name_e == Call(name.r, "ReadTextPmx")
             is_special == Call(name_e.r, "ReadUint8")
             item_count == Call(is_special.r, "ReadInt32")
             items == ReadDisplayItems(item_count.r, item_count.v, <<>>)
             frame == Ret(items.r, [name |-> name.v, name_e |-> name_e.v,
                                    is_special |-> is_special.v # 0,
                                    items |-> items.v])
         IN ReadDisplayFrames(frame.r, n - 1, Append(acc, frame.v))

\* lines 508-529
ParseDisplayFrames(r) ==
    LET cnt == Call(r, "ReadInt32") IN ReadDisplayFrames(cnt.r, cnt.v, <<>>)

\* lines 532-564
ParseRigidBody(r) ==
    LET name == Call(r, "ReadTextPmx")
        name_e == Call(name.r, "ReadTextPmx")
        bone_index == Call(name_e.r, "ReadBoneIndex")
        collision_group_number == Call(bone_index.r, "ReadUint8")
        collision_group_mask == Call(collision_group_number.r, "ReadUint16")
        shape == Enum(Call(collision_group_mask.r, "ReadUint8"), RigidShape, "RigidShape")
        s == Call(shape.r, "ReadVec3")
        p == Call(s.r, "ReadVec3")
        rt == Call(p.r, "ReadVec3")
        mass == Call(rt.r, "ReadFloat")
        linear_damping == Call(mass.r, "ReadFloat")
        angular_damping == Call(linear_damping.r, "ReadFloat")
        bounce == Call(angular_damping.r, "ReadFloat")
        friction == Call(bounce.r, "ReadFloat")
        mode == Enum(Call(friction.r, "ReadUint8"), RigidMode, "RigidMode")
    IN Ret(mode.r,
           [name |-> name.v, name_e |-> name_e.v, bone_index |-> bone_index.v,
            collision_group_number |-> collision_group_number.v,
            collision_group_mask |-> collision_group_mask.v, shape |-> shape.v,
            size |-> s.v, position |-> Pos3(p.v), rotation |-> Rot3(rt.v),
            mass |-> mass.v, linear_damping |-> linear_damping.v,
            angular_damping |-> angular_damping.v, bounce |-> bounce.v,
            friction |-> friction.v, mode |-> mode.v])

\* line 570
RECURSIVE ParseRigidBodyList(_, _, _)
ParseRigidBodyList(r, n, acc) ==
    IF n <= 0 \/ ~Ok(r) THEN Ret(r, acc)
    ELSE LET x == Call(r, "ParseRigidBody") IN ParseRigidBodyList(x.r, n - 1, Append(acc, x.v))

\* lines 567-570
ParseRigidBodies(r) ==
    LET cnt == Call(r, "ReadInt32") IN ParseRigidBodyList(cnt.r, cnt.v, <<>>)

\* lines 573-601
ParseJoint(r) ==
    LET name == Call(r, "ReadTextPmx")
        name_e == Call(name.r, "ReadTextPmx")
        mode == Enum(Call(name_e.r, "ReadUint8"), JointMode, "JointMode")
        src_rigid == Call(mode.r, "ReadRigidIndex")
        dest_rigid == Call(src_rigid.r, "ReadRigidIndex")
        p == Call(dest_rigid.r, "ReadVec3")
        rt == Call(p.r, "ReadVec3")
        move_lo == Call(rt.r, "ReadVec3")
        move_hi == Call(move_lo.r, "ReadVec3")
        rot_lo == Call(move_hi.r, "ReadVec3")
        rot_hi == Call(rot_lo.r, "ReadVec3")
        spring_move == Call(rot_hi.r, "ReadVec3")
        spring_rot == Call(spring_move.r, "ReadVec3")
    IN Ret(spring_rot.r,
           [name |-> name.v, name_e |-> name_e.v, mode |-> mode.v,
            src_rigid |-> src_rigid.v, dest_rigid |-> dest_rigid.v,
            position |-> Pos3(p.v), rotation |-> Rot3(rt.v),
            limit_move_lower |-> Pos3(move_lo.v), limit_move_upper |-> Pos3(move_hi.v),
            limit_rotate_lower |-> Rot3(rot_lo.v), limit_rotate_upper |-> Rot3(rot_hi.v),
            spring_constant_move |-> Pos3(spring_move.v),
            spring_constant_rotate |-> Rot3(spring_rot.v)])

\* line 607
RECURSIVE ParseJointList(_, _, _)
ParseJointList(r, n, acc) ==
    IF n <= 0 \/ ~Ok(r) THEN Ret(r, acc)
    ELSE LET x == Call(r, "ParseJoint") IN ParseJointList(x.r, n - 1, Append(acc, x.v))

\* lines 604-607
ParseJoints(r) ==
    LET cnt == Call(r, "ReadInt32") IN ParseJointList(cnt.r, cnt.v, <<>>)

\* lines 625-636: the four texts, then Model(...) with the lists empty
ParseModelInfo(r) ==
    LET name == Call(r, "ReadTextPmx")
        name_e == Call(name.r, "ReadTextPmx")
        comment == Call(name_e.r, "ReadTextPmx")
        comment_e == Call(comment.r, "ReadTextPmx")
    IN Ret(comment_e.r,
           [header |-> r.header, name |-> name.v, name_e |-> name_e.v,
            comment |-> comment.v, comment_e |-> comment_e.v,
            vertices |-> <<>>, faces |-> <<>>, textures |-> <<>>,
            materials |-> <<>>, bones |-> <<>>, morphs |-> <<>>,
            display_frames |-> <<>>, rigid_bodies |-> <<>>, joints |-> <<>>])

\* The method or function named f, called on reader r
Call(r, f) ==
    CASE f = "ReadInt8" -> ReadInt8(r)
      [] f = "ReadUint8" -> ReadUint8(r)
      [] f = "ReadInt16" -> ReadInt16(r)
      [] f = "ReadUint16" -> ReadUint16(r)
      [] f = "ReadInt32" -> ReadInt32(r)
      [] f = "ReadUint32" -> ReadUint32(r)
      [] f = "ReadFloat" -> ReadFloat(r)
      [] f = "ReadVec2" -> ReadVec2(r)
      [] f = "ReadVec3" -> ReadVec3(r)
      [] f = "ReadVec4" -> ReadVec4(r)
      [] f = "ReadTextPmx" -> ReadTextPmx(r)
      [] f = "ReadVertexIndex" -> ReadVertexIndex(r)
      [] f = "ReadBoneIndex" -> ReadBoneIndex(r)
      [] f = "ReadTextureIndex" -> ReadTextureIndex(r)
      [] f = "ReadMaterialIndex" -> ReadMaterialIndex(r)
      [] f = "ReadMorphIndex" -> ReadMorphIndex(r)
      [] f = "ReadRigidIndex" -> ReadRigidIndex(r)
      [] f = "ParseHeader" -> ParseHeader(r)
      [] f = "ReadBones4" -> ReadBones4(r)
      [] f = "ParseVertex" -> ParseVertex(r)
      [] f = "ParseVertices" -> ParseVertices(r)
      [] f = "ParseFaces" -> ParseFaces(r)
      [] f = "ParseTextures" -> ParseTextures(r)
      [] f = "ParseMaterial" -> ParseMaterial(r)
      [] f = "ParseMaterials" -> ParseMaterials(r)
      [] f = "ReadIk" -> ReadIk(r)
      [] f = "ParseBone" -> ParseBone(r)
      [] f = "ParseBones" -> ParseBones(r)
      [] f = "ParseMorph" -> ParseMorph(r)
      [] f = "ParseMorphs" -> ParseMorphs(r)
      [] f = "ParseDisplayFrames" -> ParseDisplayFrames(r)
      [] f = "ParseRigidBody" -> ParseRigidBody(r)
      [] f = "ParseRigidBodies" -> ParseRigidBodies(r)
      [] f = "ParseJoint" -> ParseJoint(r)
      [] f = "ParseJoints" -> ParseJoints(r)
      [] f = "ParseModelInfo" -> ParseModelInfo(r)

(***************************************************************************)
(* pmx/parser.py: parse                                                    *)
(***************************************************************************)
\* One step of parse that ran the parser of a part with result res: the cursor
\* moves and the part is kept, or an exception leaves parse (no handler
\* catches it)
ParseStep(res, part, to) ==
    /\ fpos' = res.r.pos
    /\ reads' = res.r.log
    /\ IF Ok(res.r)
       THEN /\ ppc' = to
            /\ header' = IF part = "header" THEN res.v ELSE header
            /\ model' = IF part = "header" THEN model
                        ELSE IF part = "info" THEN res.v
                        ELSE [model EXCEPT ![part] = res.v]
            /\ presult' = presult
       ELSE /\ ppc' = "error"
            /\ header' = header
            /\ model' = model
            /\ presult' = res.r.exc

\* lines 622-623
PmxParseHeader ==
    /\ ppc = "header"
    /\ ParseStep(Call(Reader(fpos, NoHeader), "ParseHeader"), "header", "texts")
    /\ UNCHANGED <<fbytes, fcase>>
    /\ UNCHANGED notPmx

\* lines 625-636
PmxReadTexts ==
    /\ ppc = "texts"
    /\ ParseStep(Call(Reader(fpos, header), "ParseModelInfo"), "info", "vertices")
    /\ UNCHANGED <<fbytes, fcase>>
    /\ UNCHANGED notPmx

\* line 638
PmxParseVertices ==
    /\ ppc = "vertices"
    /\ ParseStep(Call(Reader(fpos, header), "ParseVertices"), "vertices", "faces")
    /\ UNCHANGED <<fbytes, fcase>>
    /\ UNCHANGED notPmx

\* line 639
PmxParseFaces ==
    /\ ppc = "faces"
    /\ ParseStep(Call(Reader(fpos, header), "ParseFaces"), "faces", "textures")
    /\ UNCHANGED <<fbytes, fcase>>
    /\ UNCHANGED notPmx

\* line 640
PmxParseTextures ==
    /\ ppc = "textures"
    /\ ParseStep(Call(Reader(fpos, header), "ParseTextures"), "textures", "materials")
    /\ UNCHANGED <<fbytes, fcase>>
    /\ UNCHANGED notPmx

\* line 641
PmxParseMaterials ==
    /\ ppc = "materials"
    /\ ParseStep(Call(Reader(fpos, header), "ParseMaterials"), "materials", "bones")
    /\ UNCHANGED <<fbytes, fcase>>
    /\ UNCHANGED notPmx

\* line 642
PmxParseBones ==
    /\ ppc = "bones"
    /\ ParseStep(Call(Reader(fpos, header), "ParseBones"), "bones", "morphs")
    /\ UNCHANGED <<fbytes, fcase>>
    /\ UNCHANGED notPmx

\* line 643
PmxParseMorphs ==
    /\ ppc = "morphs"
    /\ ParseStep(Call(Reader(fpos, header), "ParseMorphs"), "morphs", "display_frames")
    /\ UNCHANGED <<fbytes, fcase>>
    /\ UNCHANGED notPmx

\* line 644
PmxParseDisplayFrames ==
    /\ ppc = "display_frames"
    /\ ParseStep(Call(Reader(fpos, header), "ParseDisplayFrames"), "display_frames", "rigid_bodies")
    /\ UNCHANGED <<fbytes, fcase>>
    /\ UNCHANGED notPmx

\* line 645
PmxParseRigidBodies ==
    /\ ppc = "rigid_bodies"
    /\ ParseStep(Call(Reader(fpos, header), "ParseRigidBodies"), "rigid_bodies", "joints")
    /\ UNCHANGED <<fbytes, fcase>>
    /\ UNCHANGED notPmx

\* line 646
PmxParseJoints ==
    /\ ppc = "joints"
    /\ ParseStep(Call(Reader(fpos, header), "ParseJoints"), "joints", "return")
    /\ UNCHANGED <<fbytes, fcase>>
    /\ UNCHANGED notPmx

\* lines 648-656
PmxReturn ==
    /\ ppc = "return"
    /\ ppc' = "done"
    /\ presult' = "Model"
    /\ reads' = <<>>
    /\ UNCHANGED <<fbytes, fcase, fpos, header, model>>
    /\ UNCHANGED notPmx

PmxNext ==
    \/ PmxParseHeader
    \/ PmxReadTexts
    \/ PmxParseVertices
    \/ PmxParseFaces
    \/ PmxParseTextures
    \/ PmxParseMaterials
    \/ PmxParseBones
    \/ PmxParseMorphs
    \/ PmxParseDisplayFrames
    \/ PmxParseRigidBodies
    \/ PmxParseJoints
    \/ PmxReturn

(***************************************************************************)
(* PMX input files                                                         *)
(***************************************************************************)
\* Bound: the number of records per section (and per nested list) of the
\* generated files
MaxPmxRecords == 1

\* A file is built as a list of named fields
Fld(name, bytes) == <<[name |-> name, bytes |-> bytes]>>
FileOf(fields) == Concat([i \in 1..Len(fields) |-> fields[i].bytes])
FirstNamed(fields, name) ==
    CHOOSE i \in 1..Len(fields) :
        /\ fields[i].name = name
        /\ \A j \in 1..(i - 1) : fields[j].name # name
\* the offset of the first field called name
OffsetOf(fields, name) == Len(FileOf(SubSeq(fields, 1, FirstNamed(fields, name) - 1)))
\* fields with the bytes of the first field called name replaced
Override(fields, name, bytes) ==
    [fields EXCEPT ![FirstNamed(fields, name)].bytes = bytes]
FieldNames(fields) == {fields[i].name : i \in 1..Len(fields)}

\* n as size little-endian bytes, two's complement
IntBytes(n, size) == [i \in 1..size |-> (n \div (256 ^ (i - 1))) % 256]
\* An index stored for the declared width size: the reader takes every width
\* other than 1 and 2 as four bytes
IndexBytes(n, size) == IntBytes(n, IF size \in {1, 2} THEN size ELSE 4)
Rep(n, bytes) == Concat([i \in 1..n |-> bytes])
V2 == F_HALF \o F_ONE
V3 == F_ONE \o F_TWO \o F_HALF
V4 == F_HALF \o F_ONE \o F_TWO \o F_ZERO
\* a text of k UTF-16 or UTF-8 letters
TextBytes(p, k) ==
    LET s == [i \in 1..k |-> 64 + i]
        data == IF p.enc = 1 THEN s ELSE Concat([i \in 1..k |-> <<s[i], 0>>])
    IN IntBytes(Len(data), 4) \o data

\* The parameters of a well-formed file
BaseParams ==
    [enc |-> 0, uv |-> 1, vsz |-> 1, tsz |-> 1, msz |-> 1, bsz |-> 2, mosz |-> 1,
     rsz |-> 1, n |-> MaxPmxRecords, wt |-> SDEF, frem |-> 0, fx |-> 0, fc |-> 3,
     toon |-> 0, oneg |-> 0,
     bflags |-> 32, limits |-> 1, cat |-> 1, mtype |-> BONE, quat |-> "identity",
     dtype |-> 0, shape |-> 1, rmode |-> 1]

HeaderFields(p) ==
    Fld("magic", PMX_MAGIC) \o Fld("version", F_TWO) \o Fld("globals_count", <<8>>)
    \o Fld("globals", <<p.enc, p.uv, p.vsz, p.tsz, p.msz, p.bsz, p.mosz, p.rsz>>)
    \o Fld("name", TextBytes(p, 2)) \o Fld("name_e", TextBytes(p, 1))
    \o Fld("comment", TextBytes(p, 0)) \o Fld("comment_e", TextBytes(p, 1))

WeightBytes(p, k) ==
    LET b == IndexBytes(k - 1, p.bsz)
        none == IndexBytes(-1, p.bsz)
    IN CASE p.wt = BDEF1 -> b
         [] p.wt = BDEF2 -> b \o none \o F_ONE
         [] p.wt = SDEF -> b \o none \o F_HALF \o V3 \o V3 \o V3
         [] OTHER -> b \o none \o none \o none \o V4

VertexFields(p, k) ==
    Fld("vertex.position", V3) \o Fld("vertex.normal", V3) \o Fld("vertex.uv", V2)
    \o Fld("vertex.additional_uvs", Rep(p.uv, V4))
    \o Fld("vertex.weight_type", <<p.wt>>) \o Fld("vertex.weight", WeightBytes(p, k))
    \o Fld("vertex.edge_scale", F_ONE)

FaceFields(p, k) ==
    Fld("face", IndexBytes(3 * k - 3, p.vsz) \o IndexBytes(3 * k - 2, p.vsz)
                \o IndexBytes(-k, p.vsz))

MaterialFields(p, k) ==
    Fld("material.name", TextBytes(p, k)) \o Fld("material.name_e", TextBytes(p, 0))
    \o Fld("material.colors", V4 \o V3 \o F_ONE \o V3 \o <<k>> \o V4 \o F_HALF)
    \o Fld("material.textures", IndexBytes(k - 1, p.tsz) \o IndexBytes(-1, p.tsz) \o <<2>>)
    \o Fld("material.toon_sharing", <<p.toon>>)
    \o Fld("material.toon", IF p.toon = 0 THEN IndexBytes(-1, p.tsz) ELSE <<3>>)
    \o Fld("material.comment", TextBytes(p, 1))
    \o Fld("material.face_count", IntBytes(p.fc, 4))

IkLinkBytes(p, j) ==
    IndexBytes(j - 1, p.bsz) \o <<p.limits>> \o (IF p.limits # 0 THEN V3 \o V3 ELSE <<>>)

BoneFields(p, k) ==
    Fld("bone.name", TextBytes(p, k)) \o Fld("bone.name_e", TextBytes(p, 1))
    \o Fld("bone.position", V3) \o Fld("bone.parent", IndexBytes(k - 2, p.bsz))
    \o Fld("bone.transform_order", IntBytes(k, 4))
    \o Fld("bone.flags", IntBytes(p.bflags, 2))
    \o Fld("bone.display_connection",
           IF Bit(p.bflags, 0) THEN IndexBytes(-1, p.bsz) ELSE V3)
    \o Fld("bone.additional_transform",
           IF Bit(p.bflags, 8) \/ Bit(p.bflags, 9)
           THEN IndexBytes(k - 1, p.bsz) \o F_HALF ELSE <<>>)
    \o Fld("bone.fixed_axis", IF Bit(p.bflags, 10) THEN V3 ELSE <<>>)
    \o Fld("bone.local_axis", IF Bit(p.bflags, 11) THEN V3 \o V3 ELSE <<>>)
    \o Fld("bone.external_parent", IF Bit(p.bflags, 13) THEN IntBytes(7, 4) ELSE <<>>)
    \o (IF Bit(p.bflags, 5)
        THEN Fld("bone.ik", IndexBytes(k - 1, p.bsz) \o IntBytes(40, 4) \o F_ONE)
             \o Fld("bone.link_count", IntBytes(p.n, 4))
             \o Fld("bone.ik_links", Concat([j \in 1..p.n |-> IkLinkBytes(p, j)]))
        ELSE <<>>)

MorphOffsetBytes(p, j) ==
    CASE p.mtype = GROUP -> IndexBytes(j - 1, p.mosz) \o F_HALF
      [] p.mtype = VERTEX -> IndexBytes(j - 1, p.vsz) \o V3
      [] p.mtype = BONE -> IndexBytes(j - 1, p.bsz) \o V3 \o QuatBytes(p.quat)
      [] p.mtype \in UVTypes -> IndexBytes(j - 1, p.vsz) \o V4
      [] OTHER -> IndexBytes(-1, p.msz) \o <<1>> \o V4 \o V3 \o F_ONE \o V3 \o V4
                  \o F_ONE \o V4 \o V4 \o V4

\* The offset count that a morph declares: n, or -oneg with no offset stored
MorphOffsetCount(p) == IF p.oneg = 0 THEN p.n ELSE -p.oneg

MorphFields(p, k) ==
    Fld("morph.name", TextBytes(p, k)) \o Fld("morph.name_e", TextBytes(p, 1))
    \o Fld("morph.category", <<p.cat>>) \o Fld("morph.type", <<p.mtype>>)
    \o Fld("morph.offset_count", IntBytes(MorphOffsetCount(p), 4))
    \o Fld("morph.offsets",
           Concat([j \in 1..(IF p.oneg = 0 THEN p.n ELSE 0) |->
                      MorphOffsetBytes(p, j)]))

DisplayFrameFields(p, k) ==
    Fld("frame.name", TextBytes(p, k)) \o Fld("frame.name_e", TextBytes(p, 1))
    \o Fld("frame.special", <<k % 2>>) \o Fld("frame.item_count", IntBytes(p.n, 4))
    \o Fld("frame.items",
           Concat([j \in 1..p.n |->
                      <<p.dtype>> \o IndexBytes(j - 1, IF p.dtype = 0 THEN p.bsz ELSE p.mosz)]))

RigidBodyFields(p, k) ==
    Fld("rigid.name", TextBytes(p, k)) \o Fld("rigid.name_e", TextBytes(p, 1))
    \o Fld("rigid.bone", IndexBytes(k - 1, p.bsz) \o <<k, 255, 127>>)
    \o Fld("rigid.shape", <<p.shape>>)
    \o Fld("rigid.floats", V3 \o V3 \o V3 \o F_ONE \o F_HALF \o F_HALF \o F_ZERO \o F_HALF)
    \o Fld("rigid.mode", <<p.rmode>>)

JointFields(p, k) ==
    Fld("joint.name", TextBytes(p, k)) \o Fld("joint.name_e", TextBytes(p, 1))
    \o Fld("joint.mode", <<0>>)
    \o Fld("joint.rigids", IndexBytes(k - 1, p.rsz) \o IndexBytes(-1, p.rsz))
    \o Fld("joint.floats", Rep(8, V3))

Section(name, n, rec(_)) ==
    Fld(name, IntBytes(n, 4)) \o Concat([k \in 1..n |-> rec(k)])

\* The fields of the well-formed file with parameters p
PmxFields(p) ==
    LET Vertex(k) == VertexFields(p, k)
        Face(k) == FaceFields(p, k)
        Texture(k) == Fld("texture.path", TextBytes(p, k))
        Material(k) == MaterialFields(p, k)
        Bone(k) == BoneFields(p, k)
        Morph(k) == MorphFields(p, k)
        Frame(k) == DisplayFrameFields(p, k)
        Rigid(k) == RigidBodyFields(p, k)
        Joint(k) == JointFields(p, k)
    IN HeaderFields(p)
       \o Section("vertex_count", p.n, Vertex)
       \o Fld("index_count", IntBytes(3 * (p.n + p.fx) + p.frem, 4))
       \o Concat([k \in 1..(p.n + p.fx) |-> Face(k)])
       \o Section("texture_count", p.n, Texture)
       \o Section("material_count", p.n, Material)
       \o Section("bone_count", p.n, Bone)
       \o Section("morph_count", p.n, Morph)
       \o Section("frame_count", p.n, Frame)
       \o Section("rigid_count", p.n, Rigid)
       \o Section("joint_count", p.n, Joint)

BaseFields == PmxFields(BaseParams)
BaseFile == FileOf(BaseFields)

\* The values each parameter takes, one parameter varied at a time
ParamValues ==
    [enc |-> {0, 1}, uv |-> 0..5, vsz |-> {1, 2, 3, 4}, tsz |-> {0, 1, 2, 4},
     msz |-> {1, 2, 4, 8}, bsz |-> {1, 2, 3, 4}, mosz |-> {1, 2, 4, 255},
     rsz |-> {1, 2, 4, 5},
     n |-> 0..MaxPmxRecords, wt |-> WeightType, frem |-> 0..2, fx |-> 0..2,
     fc |-> {-3, 0, 3, 4, 6}, toon |-> {0, 1}, oneg |-> {1, 2},
     bflags |-> {0, 1, 32, 256, 512, 768, 1024, 2048, 8192, 12065, 65535},
     limits |-> {0, 1}, cat |-> MorphCategory, mtype |-> MorphType,
     quat |-> QuatKinds, dtype |-> {0, 1, 2}, shape |-> RigidShape,
     rmode |-> RigidMode]

\* float32 bit patterns of version values: 2.1, 2.2, 3.0, -2.0, the float32
\* after 2.0, +inf and a NaN
F_2_1 == <<102, 102, 6, 64>>
F_2_2 == <<205, 204, 12, 64>>
F_THREE == <<0, 0, 64, 64>>
F_NEGTWO == <<0, 0, 0, 192>>
F_TWO_NEXT == <<1, 0, 0, 64>>
F_INF == <<0, 0, 128, 127>>
F_NAN == <<0, 0, 192, 127>>
VersionBytes ==
    {F_TWO, F_2_1, F_2_2, F_THREE, F_NEGTWO, F_TWO_NEXT, F_INF, F_NAN, F_ONE, F_ZERO,
     F_DENORMAL}

\* the count of the last section: what follows a changed count is the end of
\* the file
CountFieldNames == {"joint_count"}
TextFieldNames == {"name", "comment", "texture.path", "bone.name", "joint.name_e"}
INT32_MAX == 2147483647

\* The bytes that replace a field of the base file
OverrideValues ==
    [f \in {"magic", "version", "globals_count", "vertex.weight_type", "morph.category",
            "morph.type", "rigid.shape", "rigid.mode", "joint.mode"}
           \cup CountFieldNames \cup TextFieldNames |->
        CASE f = "magic" -> {<<80, 77, 88, 0>>, <<80, 109, 120, 32>>, <<0, 80, 77, 88>>}
          [] f = "version" -> VersionBytes
          [] f = "globals_count" -> {<<0>>, <<7>>}
          [] f = "vertex.weight_type" -> {<<5>>, <<255>>}
          [] f = "morph.category" -> {<<5>>}
          [] f = "morph.type" -> {<<9>>, <<10>>, <<255>>}
          [] f = "rigid.shape" -> {<<3>>, <<255>>}
          [] f = "rigid.mode" -> {<<3>>}
          [] f = "joint.mode" -> {<<1>>, <<5>>, <<255>>}
          [] f \in CountFieldNames ->
               {IntBytes(-1, 4), IntBytes(MaxPmxRecords + 1, 4), IntBytes(INT32_MAX, 4)}
          [] OTHER -> {IntBytes(-1, 4), IntBytes(-2, 4), IntBytes(INT32_MAX, 4)}]

\* An input case: how the file was made.  at is the offset of the replaced
\* field, or the length of the prefix.
Variant(f, v) ==
    [kind |-> "variant", field |-> f, p |-> [BaseParams EXCEPT ![f] = v],
     bytes |-> <<>>, at |-> 0]
Overridden(f, b) ==
    [kind |-> "override", field |-> f, p |-> BaseParams, bytes |-> b,
     at |-> OffsetOf(BaseFields, f)]
Prefix(t) ==
    [kind |-> "prefix", field |-> "", p |-> BaseParams, bytes |-> <<>>, at |-> t]
NoCase == [kind |-> "idle", field |-> "", p |-> BaseParams, bytes |-> <<>>, at |-> 0]

CaseFile(c) ==
    CASE c.kind = "variant" -> FileOf(PmxFields(c.p))
      [] c.kind = "override" -> FileOf(Override(BaseFields, c.field, c.bytes))
      [] c.kind = "prefix" -> SubSeq(BaseFile, 1, c.at)

QuatCases == {Variant("quat", q) : q \in QuatKinds}

PmxCases ==
    UNION {{Variant(f, v) : v \in ParamValues[f]} : f \in DOMAIN ParamValues}
    \cup UNION {{Overridden(f, b) : b \in OverrideValues[f]} : f \in DOMAIN OverrideValues}
    \cup {Prefix(t) : t \in 0..(Len(BaseFile) - 1)}

PmxStart(cases) ==
    /\ fcase \in cases
    /\ fbytes = CaseFile(fcase)
    /\ fpos = 0
    /\ ppc = "header"
    /\ header = NoHeader
    /\ model = None
    /\ reads = <<>>
    /\ presult = "none"

PmxInit == PmxStart(PmxCases)

(***************************************************************************)
(* Specifications                                                          *)
(***************************************************************************)
\* The variables of a parser that is not running
ChainsIdle ==
    /\ rigid_bodies = <<>> /\ joints = <<>> /\ cpc = "idle" /\ neighbors = <<>>
    /\ roots = <<>> /\ rootPos = 1 /\ visited = {} /\ chains = <<>>

VmdIdle ==
    /\ buf = <<>> /\ pos = 0 /\ vpc = "idle" /\ count = NoCount /\ idx = 0
    /\ model_name = <<>> /\ bone_keyframes = <<>> /\ morph_keyframes = <<>>
    /\ camera_keyframes = <<>> /\ property_keyframes = <<>> /\ vresult = "none"

PmxIdle ==
    /\ fcase = NoCase /\ fbytes = <<>> /\ fpos = 0 /\ ppc = "idle"
    /\ header = NoHeader /\ model = None /\ reads = <<>> /\ presult = "none"

CallIdle == callpc = "idle" /\ callfn = "" /\ callarg = <<>> /\ callret = <<>>

ChainsSpecInit == ChainsInit /\ VmdIdle /\ PmxIdle /\ CallIdle

SpecChains == ChainsSpecInit /\ [][ChainsNext]_vars

VmdSpecInit == VmdInit /\ ChainsIdle /\ PmxIdle /\ CallIdle

SpecVmd == VmdSpecInit /\ [][VmdNext]_vars

PmxSpecInit == PmxInit /\ ChainsIdle /\ VmdIdle /\ CallIdle

SpecPmx == PmxSpecInit /\ [][PmxNext]_vars

\* The motion files applied to an imported model: complete files of every
\* quaternion kind, every prefix of the one whose quaternions are all-zero,
\* and a damaged signature
MotionInputs ==
    {BuildVmd(FullCounts, q) : q \in QuatKinds}
    \cup {SubSeq(BuildVmd(FullCounts, "zero"), 1, t) : t \in 0..Len(FullVmd)}
    \cup {SetBytes(FullVmd, 0, <<1>>)}

(***************************************************************************)
(* The index readers of _Reader, each called once on a four-byte file      *)
(***************************************************************************)
IndexWidths == <<1, 2, 4>>
IndexByteValues == {0, 1, 127, 128, 255}
IndexInputs == [1..4 -> IndexByteValues]

\* A header whose index widths are 1, 2, 4 in turn, starting at the (s+1)-th
IndexHeader(s) ==
    [version |-> F32At(F_TWO, 0),
     encoding |-> "utf-8",
     additional_uv_count |-> 0,
     vertex_index_size |-> IndexWidths[(s % 3) + 1],
     texture_index_size |-> IndexWidths[((s + 1) % 3) + 1],
     material_index_size |-> IndexWidths[((s + 2) % 3) + 1],
     bone_index_size |-> IndexWidths[((s + 1) % 3) + 1],
     morph_index_size |-> IndexWidths[((s + 2) % 3) + 1],
     rigid_index_size |-> IndexWidths[(s % 3) + 1]]

IndexInit ==
    /\ fbytes \in IndexInputs
    /\ header \in {IndexHeader(s) : s \in 0..2}
    /\ fpos = 0
    /\ fcase = NoCase /\ ppc = "idle" /\ model = None /\ reads = <<>> /\ presult = "none"
    /\ callpc = "ready" /\ callfn = "" /\ callarg = <<>> /\ callret = <<>>

\* r.<name>() on a reader at the start of the file
CallIndex(res, name) ==
    /\ callfn' = name
    /\ callret' = [v |-> res.v, pos |-> res.r.pos, exc |-> res.r.exc]
    /\ callpc' = "done"
    /\ UNCHANGED callarg
    /\ UNCHANGED notCall

CallReadVertexIndex ==
    /\ callpc = "ready"
    /\ CallIndex(Call(Reader(fpos, header), "ReadVertexIndex"), "read_vertex_index")
CallReadBoneIndex ==
    /\ callpc = "ready"
    /\ CallIndex(Call(Reader(fpos, header), "ReadBoneIndex"), "read_bone_index")
CallReadTextureIndex ==
    /\ callpc = "ready"
    /\ CallIndex(Call(Reader(fpos, header), "ReadTextureIndex"), "read_texture_index")
CallReadMaterialIndex ==
    /\ callpc = "ready"
    /\ CallIndex(Call(Reader(fpos, header), "ReadMaterialIndex"), "read_material_index")
CallReadMorphIndex ==
    /\ callpc = "ready"
    /\ CallIndex(Call(Reader(fpos, header), "ReadMorphIndex"), "read_morph_index")
CallReadRigidIndex ==
    /\ callpc = "ready"
    /\ CallIndex(Call(Reader(fpos, header), "ReadRigidIndex"), "read_rigid_index")

IndexNext ==
    \/ CallReadVertexIndex
    \/ CallReadBoneIndex
    \/ CallReadTextureIndex
    \/ CallReadMaterialIndex
    \/ CallReadMorphIndex
    \/ CallReadRigidIndex

IndexSpecInit == IndexInit /\ ChainsIdle /\ VmdIdle

SpecIndex == IndexSpecInit /\ [][IndexNext]_vars

(***************************************************************************)
(* The coordinate conversion helpers, each applied twice to a triple       *)
(***************************************************************************)
\* 0.0, -0.0, 1.0, -2.0, 0.5 and a NaN
ConvFloats ==
    {F32At(F_ZERO, 0), F32At(F_NEGZERO, 0), F32At(F_ONE, 0), F32At(F_NEGTWO, 0),
     F32At(F_HALF, 0), F32At(F_NAN, 0)}

ConvInit ==
    /\ callarg \in ConvFloats \X ConvFloats \X ConvFloats
    /\ callpc = "ready"
    /\ callfn = ""
    /\ callret = <<>>

\* The triple the next call is applied to: the argument, then the result
ConvCurrent == IF callpc = "ready" THEN callarg ELSE callret

\* name is called on the current triple and returns res; the second call is a
\* call of the same function
ConvStep(name, res) ==
    /\ callpc = "once" => callfn = name
    /\ callfn' = name
    /\ callret' = res
    /\ callpc' = IF callpc = "ready" THEN "once" ELSE "twice"
    /\ UNCHANGED callarg
    /\ UNCHANGED notCall

CallPos ==
    /\ callpc \in {"ready", "once"}
    /\ ConvStep("_pos", Pos(ConvCurrent[1], ConvCurrent[2], ConvCurrent[3]))

CallRot ==
    /\ callpc \in {"ready", "once"}
    /\ ConvStep("_rot", Rot(ConvCurrent[1], ConvCurrent[2], ConvCurrent[3]))

CallPos3 ==
    /\ callpc \in {"ready", "once"}
    /\ ConvStep("_pos3", Pos3(ConvCurrent))

CallRot3 ==
    /\ callpc \in {"ready", "once"}
    /\ ConvStep("_rot3", Rot3(ConvCurrent))

ConvNext == CallPos \/ CallRot \/ CallPos3 \/ CallRot3

ConvSpecInit == ConvInit /\ ChainsIdle /\ VmdIdle /\ PmxIdle

SpecConv == ConvSpecInit /\ [][ConvNext]_vars

(***************************************************************************)
(* armature.py: _axis_aligned_permutation; vmd/importer.py:                *)
(* _InterpolationHelper.  A matrix is the sequence of its three rows, and  *)
(* mat[i][j] in Python is mat[i + 1][j + 1] here.                          *)
(***************************************************************************)
Abs(x) == IF x < 0 THEN -x ELSE x

Entry(mat, i, j) == mat[i + 1][j + 1]

SetEntry(mat, i, j, v) == [mat EXCEPT ![i + 1][j + 1] = v]

ZeroMatrix == <<<<0, 0, 0>>, <<0, 0, 0>>, <<0, 0, 0>>>>

\* list.remove(x): the list without the first occurrence of x
ListRemove(l, x) ==
    LET k == CHOOSE n \in 1..Len(l) : l[n] = x /\ \A q \in 1..(n - 1) : l[q] # x
    IN SubSeq(l, 1, k - 1) \o SubSeq(l, k + 1, Len(l))

\* The pairs (i, j) in the order of "for i in i_set: for j in j_set"
Cells(i_set, j_set) ==
    Concat([a \in 1..Len(i_set) |-> [b \in 1..Len(j_set) |-> <<i_set[a], j_set[b]>>]])

\* armature.py lines 452-455: the scan for the largest absolute value
RECURSIVE ScanEntries(_, _, _)
ScanEntries(mat, cells, best) ==
    IF cells = <<>> THEN best
    ELSE LET c == Head(cells)
         IN ScanEntries(mat, Tail(cells),
                        IF Abs(Entry(mat, c[1], c[2])) > Abs(Entry(mat, best[1], best[2]))
                        THEN c ELSE best)

\* An iteration that does not remove the chosen column
PickEntryKeepColumn(mat, st) ==
    LET best == ScanEntries(mat, Cells(st.i_set, st.j_set), <<st.i_set[1], st.j_set[1]>>)
    IN [m |-> SetEntry(st.m, best[1], best[2],
                       IF Entry(mat, best[1], best[2]) < 0 THEN -1 ELSE 1),
        i_set |-> ListRemove(st.i_set, best[1]),
        j_set |-> st.j_set,
        k |-> st.k + 1]

\* armature.py lines 451-458: one iteration of "for _ in range(3)"
PickEntry(mat, st) ==
    LET best == ScanEntries(mat, Cells(st.i_set, st.j_set), <<st.i_set[1], st.j_set[1]>>)
    IN [m |-> SetEntry(st.m, best[1], best[2],
                       IF Entry(mat, best[1], best[2]) < 0 THEN -1 ELSE 1),
        i_set |-> ListRemove(st.i_set, best[1]),
        j_set |-> ListRemove(st.j_set, best[2]),
        k |-> st.k + 1]

\* Tuples (-abs(mat[i][j]), i, j) in Python's tuple order
KeyLess(a, b) ==
    \/ a[1] < b[1]
    \/ a[1] = b[1] /\ a[2] < b[2]
    \/ a[1] = b[1] /\ a[2] = b[2] /\ a[3] < b[3]

\* sorted() of a set of pairwise different keys
RECURSIVE SortKeys(_)
SortKeys(S) ==
    IF S = {} THEN <<>>
    ELSE LET least == CHOOSE x \in S : \A y \in S \ {x} : KeyLess(x, y)
         IN <<least>> \o SortKeys(S \ {least})

\* l with the elements at (0-based) positions a and b exchanged
Swap(l, a, b) == [l EXCEPT ![a + 1] = l[b + 1], ![b + 1] = l[a + 1]]

\* list.index(x), 0-based
ListIndex(l, x) ==
    (CHOOSE n \in 1..Len(l) : l[n] = x /\ \A q \in 1..(n - 1) : l[q] # x) - 1

\* next(k for k in sorted_list if k[1] != i and k[2] != j)
RECURSIVE NextOffRowAndColumn(_, _, _)
NextOffRowAndColumn(sorted_list, i, j) ==
    IF Head(sorted_list)[2] # i /\ Head(sorted_list)[3] # j THEN Head(sorted_list)
    ELSE NextOffRowAndColumn(Tail(sorted_list), i, j)

\* An index list made from the largest entry alone
InterpolationIndicesFirstOnly(mat) ==
    LET sorted_list == SortKeys({<<-Abs(Entry(mat, i, j)), i, j>> : i \in 0..2, j \in 0..2})
        first == sorted_list[1]
    IN IF first[2] # first[3] THEN Swap(<<0, 1, 2>>, first[2], first[3])
       ELSE <<0, 1, 2>>

\* vmd/importer.py lines 167-180: _InterpolationHelper.__init__
InterpolationIndices(mat) ==
    LET sorted_list == SortKeys({<<-Abs(Entry(mat, i, j)), i, j>> : i \in 0..2, j \in 0..2})
        first == sorted_list[1]
        swapped == IF first[2] # first[3] THEN Swap(<<0, 1, 2>>, first[2], first[3])
                   ELSE <<0, 1, 2>>
        second == NextOffRowAndColumn(sorted_list, first[2], first[3])
    IN IF swapped[second[2] + 1] # second[3]
       THEN Swap(swapped, second[2], ListIndex(swapped, second[3]))
       ELSE swapped

\* vmd/importer.py lines 182-184: convert
Convert(indices, interp_xyz) == [n \in 1..Len(indices) |-> interp_xyz[indices[n] + 1]]

\* ---- the inputs: every matrix with entries -1, 0 and 2 (ties, zeros, signs),
\* ---- and the matrices of nine different magnitudes got from one of them by
\* ---- permuting its rows and columns and changing its sign
TieEntries == {-1, 0, 2}

TieMatrices == [1..3 -> [1..3 -> TieEntries]]

DistinctBase == <<<<9, 2, 3>>, <<4, 8, 1>>, <<5, 6, 7>>>>

Permutations3 == {f \in [1..3 -> 1..3] : \A a, b \in 1..3 : f[a] = f[b] => a = b}

DistinctMatrices ==
    {[i \in 1..3 |-> [j \in 1..3 |-> sign * DistinctBase[r[i]][c[j]]]] :
        r \in Permutations3, c \in Permutations3, sign \in {-1, 1}}

PermInputs == TieMatrices \cup DistinctMatrices

PermInit ==
    /\ callarg \in PermInputs
    /\ callpc = "ready"
    /\ callfn = ""
    /\ callret = <<>>

\* armature.py lines 447-449
CallAxisAlignedPermutation ==
    /\ callpc = "ready"
    /\ callfn' = "_axis_aligned_permutation"
    /\ callret' = [m |-> ZeroMatrix, i_set |-> <<0, 1, 2>>, j_set |-> <<0, 1, 2>>, k |-> 0]
    /\ callpc' = "loop"
    /\ UNCHANGED callarg
    /\ UNCHANGED notCall

\* armature.py lines 450-458: one iteration
PickLargestEntry ==
    /\ callpc = "loop"
    /\ callret.k < 3
    /\ callret' = PickEntry(callarg, callret)
    /\ UNCHANGED <<callpc, callfn, callarg>>
    /\ UNCHANGED notCall

\* armature.py line 459: return m
ReturnPermutation ==
    /\ callpc = "loop"
    /\ callret.k >= 3
    /\ callret' = [m |-> callret.m]
    /\ callpc' = "returned"
    /\ UNCHANGED <<callfn, callarg>>
    /\ UNCHANGED notCall

\* vmd/importer.py line 207: _InterpolationHelper(mat), for the same matrix
NewInterpolationHelper ==
    /\ callpc = "returned"
    /\ callfn' = "_InterpolationHelper"
    /\ callret' = [m |-> callret.m, indices |-> InterpolationIndices(callarg)]
    /\ callpc' = "helper"
    /\ UNCHANGED callarg
    /\ UNCHANGED notCall

\* vmd/importer.py line 348: converter.convert_interpolation((0, 16, 32))
ConvertInterpolation ==
    /\ callpc = "helper"
    /\ callfn' = "convert_interpolation"
    /\ callret' = [m |-> callret.m, indices |-> callret.indices,
                   loc_indices |-> Convert(callret.indices, <<0, 16, 32>>)]
    /\ callpc' = "done"
    /\ UNCHANGED callarg
    /\ UNCHANGED notCall

PermNext ==
    \/ CallAxisAlignedPermutation \/ PickLargestEntry \/ ReturnPermutation
    \/ NewInterpolationHelper \/ ConvertInterpolation

PermSpecInit == PermInit /\ ChainsIdle /\ VmdIdle /\ PmxIdle

SpecPerm == PermSpecInit /\ [][PermNext]_vars

(***************************************************************************)
(* armature.py: _resolve_bone_name and _ensure_unique_names.  A str is the *)
(* sequence of its characters; "U+9996" stands for the one character of    *)
(* that code point.                                                        *)
(***************************************************************************)
MaxBones == 3

\* translations.py line 23, an excerpt of BONE_NAMES
BONE_NAMES == [key \in {<<"U+9996">>} |-> <<"N", "e", "c", "k">>]

\* translations.py lines 223-225: BONE_NAMES.get(name_j)
translate(name_j) == IF name_j \in DOMAIN BONE_NAMES THEN BONE_NAMES[name_j] ELSE None

\* str.strip()
RECURSIVE strip(_)
strip(str) ==
    IF str = <<>> THEN str
    ELSE IF Head(str) = " " THEN strip(Tail(str))
    ELSE IF str[Len(str)] = " " THEN strip(SubSeq(str, 1, Len(str) - 1))
    ELSE str

\* translations.py lines 215-220: _LR_PATTERN.sub(r".\1", name)
normalize_lr(name) ==
    IF Len(name) >= 2 /\ name[Len(name) - 1] = "_" /\ name[Len(name)] \in {"L", "R"}
    THEN [name EXCEPT ![Len(name) - 1] = "."]
    ELSE name

\* armature.py lines 41-53
resolve_bone_name(bone) ==
    IF translate(bone.name) # None THEN translate(bone.name)
    ELSE IF bone.name_e # <<>> /\ strip(bone.name_e) # <<>>
         THEN normalize_lr(strip(bone.name_e))
         ELSE bone.name

DigitChars == <<"0", "1", "2", "3", "4", "5", "6", "7", "8", "9">>

RECURSIVE Decimal(_)
Decimal(n) ==
    IF n < 10 THEN <<DigitChars[n + 1]>>
    ELSE Decimal(n \div 10) \o <<DigitChars[(n % 10) + 1]>>

\* f"{n:03d}"
RECURSIVE ZeroPad(_, _)
ZeroPad(digits, width) ==
    IF Len(digits) >= width THEN digits ELSE ZeroPad(<<"0">> \o digits, width)

Format03d(n) == ZeroPad(Decimal(n), 3)

\* armature.py lines 60-68: the body of "for bone in bones"
NameStep(st, bone) ==
    LET base == resolve_bone_name(bone)
    IN IF base \in DOMAIN st.seen
       THEN [names |-> Append(st.names, base \o <<".">> \o Format03d(st.seen[base] + 1)),
             seen |-> [st.seen EXCEPT ![base] = @ + 1],
             k |-> st.k + 1]
       ELSE [names |-> Append(st.names, base),
             seen |-> [b \in DOMAIN st.seen \cup {base} |->
                          IF b = base THEN 0 ELSE st.seen[b]],
             k |-> st.k + 1]

\* ---- the inputs: bones whose name is resolved through each branch of
\* ---- _resolve_bone_name, three of them to "A" or to the name "A.001"
NamedBones ==
    { [name |-> <<"A">>, name_e |-> <<>>],
      [name |-> <<"B">>, name_e |-> <<"A">>],
      [name |-> <<"C">>, name_e |-> <<"A", ".", "0", "0", "1">>],
      [name |-> <<"U+9996">>, name_e |-> <<"A">>],
      [name |-> <<"D">>, name_e |-> <<" ", "A", "_", "L", " ">>],
      [name |-> <<"E">>, name_e |-> <<" ">>] }

BoneLists == UNION {[1..n -> NamedBones] : n \in 0..MaxBones}

NamesInit ==
    /\ callarg \in BoneLists
    /\ callpc = "ready"
    /\ callfn = ""
    /\ callret = <<>>

\* armature.py lines 58-59
CallEnsureUniqueNames ==
    /\ callpc = "ready"
    /\ callfn' = "_ensure_unique_names"
    /\ callret' = [names |-> <<>>, seen |-> [b \in {} |-> 0], k |-> 0]
    /\ callpc' = "bones"
    /\ UNCHANGED callarg
    /\ UNCHANGED notCall

\* armature.py lines 60-68: one bone
NameBone ==
    /\ callpc = "bones"
    /\ callret.k < Len(callarg)
    /\ callret' = NameStep(callret, callarg[callret.k + 1])
    /\ UNCHANGED <<callpc, callfn, callarg>>
    /\ UNCHANGED notCall

\* armature.py line 69: return names
ReturnNames ==
    /\ callpc = "bones"
    /\ callret.k >= Len(callarg)
    /\ callret' = [names |-> callret.names]
    /\ callpc' = "returned"
    /\ UNCHANGED <<callfn, callarg>>
    /\ UNCHANGED notCall

NamesNext == CallEnsureUniqueNames \/ NameBone \/ ReturnNames

NamesSpecInit == NamesInit /\ ChainsIdle /\ VmdIdle /\ PmxIdle

SpecNames == NamesSpecInit /\ [][NamesNext]_vars

\* A model is imported, then a motion for it: the VMD import starts once the
\* PMX parse has returned
StartVmdImport ==
    /\ ppc = "done"
    /\ vpc = "idle"
    /\ buf' \in MotionInputs
    /\ vpc' = "header"
    /\ UNCHANGED <<pos, count, idx, model_name, bone_keyframes, morph_keyframes,
                   camera_keyframes, property_keyframes, vresult>>
    /\ UNCHANGED notVmd

ImportInit == PmxStart(QuatCases) /\ ChainsIdle /\ VmdIdle /\ CallIdle

ImportNext == PmxNext \/ StartVmdImport \/ VmdNext

SpecImport == ImportInit /\ [][ImportNext]_vars

(***************************************************************************)
(* Properties of the PMX decoder                                           *)
(***************************************************************************)
\* The steps of parse in program order
ParseOrder ==
    <<"header", "texts", "vertices", "faces", "textures", "materials", "bones",
      "morphs", "display_frames", "rigid_bodies", "joints", "return", "done">>

StepIndex(pc) == CHOOSE i \in 1..Len(ParseOrder) : ParseOrder[i] = pc

\* The file is the base file with the version field replaced
VersionCase == fcase.kind = "override" /\ fcase.field = "version"

\* C5: a file whose version field is the float32 encoding of 2.0 or of 2.1 is
\* accepted (its header passes and the parse goes on to return a Model); every
\* other version value is rejected with the unsupported-version error right
\* after the version field, before any section is decoded.
C5_AcceptsFloat32TwoAndTwoPointOne ==
    (VersionCase /\ ppc # "header") =>
        IF fcase.bytes \in {F_TWO, F_2_1}
        THEN ppc # "error"
        ELSE /\ ppc = "error"
             /\ presult = "ValueError: Unsupported PMX version"
             /\ fpos = fcase.at + 4
             /\ model = None

\* The fields that hold the magic token or an enum tag, the step of parse
\* that reads each, and the error of a value that is no member
TagFields ==
    {"magic", "vertex.weight_type", "morph.category", "morph.type", "rigid.shape",
     "rigid.mode", "joint.mode"}

TagStep(f) ==
    CASE f = "magic" -> "header"
      [] f = "vertex.weight_type" -> "vertices"
      [] f \in {"morph.category", "morph.type"} -> "morphs"
      [] f \in {"rigid.shape", "rigid.mode"} -> "rigid_bodies"
      [] f = "joint.mode" -> "joints"

TagError(f) ==
    CASE f = "magic" -> "ValueError: Not a PMX file"
      [] f = "vertex.weight_type" -> "ValueError: not a valid WeightType"
      [] f = "morph.category" -> "ValueError: not a valid MorphCategory"
      [] f = "morph.type" -> "ValueError: not a valid MorphType"
      [] f = "rigid.shape" -> "ValueError: not a valid RigidShape"
      [] f = "rigid.mode" -> "ValueError: not a valid RigidMode"
      [] f = "joint.mode" -> "ValueError: not a valid JointMode"

\* The file is the base file with a bad magic token or an unknown enum tag
BadTagCase == fcase.kind = "override" /\ fcase.field \in TagFields

\* C6: with a bad magic token or an unknown enum tag (weight type, morph
\* category or type, rigid-body shape or mode, joint mode) parse never gets
\* past the step that reads the tag and never returns a Model; it ends in the
\* ValueError of that tag, raised by the read of the tag itself (the last read
\* is the tag, and the cursor is just behind it), whatever was decoded before.
C6_BadTagAbortsParse ==
    BadTagCase =>
        /\ presult # "Model"
        /\ ppc # "error" => StepIndex(ppc) <= StepIndex(TagStep(fcase.field))
        /\ ppc = "error" =>
               /\ presult = TagError(fcase.field)
               /\ reads # <<>>
               /\ reads[Len(reads)].at = fcase.at
               /\ reads[Len(reads)].got = Len(fcase.bytes)
               /\ fpos = fcase.at + Len(fcase.bytes)

\* An unknown joint mode aborts the parse after every other section was decoded
C6_Witness ==
    /\ BadTagCase
    /\ fcase.field = "joint.mode"
    /\ ppc = "error"
    /\ presult = TagError("joint.mode")
    /\ Len(model.vertices) > 0
    /\ Len(model.rigid_bodies) > 0

\* C7: every read of a declared width n >= 0 asks for the width of its format
\* and either returns n bytes with the cursor moved by exactly n (the next
\* read, or the cursor after the step, is at at + n), or fewer than n bytes
\* remained: then it is the last read, EOFError is raised and parse fails
\* without a Model.
C7_ReadsConsumeDeclaredWidth ==
    \A i \in 1..Len(reads) :
        LET e == reads[i]
            after == IF i < Len(reads) THEN reads[i + 1].at ELSE fpos
        IN e.n >= 0 =>
               /\ e.op # "bytes" => e.n = StructSize[e.op]
               /\ \/ /\ e.got = e.n
                     /\ after = e.at + e.n
                  \/ /\ Len(fbytes) - e.at < e.n
                     /\ i = Len(reads)
                     /\ ppc = "error"
                     /\ presult = EOFError

\* A truncated file: reads succeed, then a fixed-width read finds some but not
\* all of its bytes
C7_Witness ==
    /\ fcase.kind = "prefix"
    /\ ppc = "error"
    /\ presult = EOFError
    /\ Len(reads) > 1
    /\ reads[1].got = reads[1].n
    /\ reads[Len(reads)].op = "vec3"
    /\ reads[Len(reads)].got \in 1..11

(***************************************************************************)
(* Properties of the import of a model and a motion                        *)
(***************************************************************************)
\* x = y = z = w = 0 under float equality
AllZero(q) == \A i \in 1..4 : FloatIsZero(q[i])

\* q == (0.0, 0.0, 0.0, 1.0) under float equality
IsIdentity(q) ==
    FloatIsZero(q[1]) /\ FloatIsZero(q[2]) /\ FloatIsZero(q[3]) /\ q[4] = FloatOne

\* The quaternion bytes of bone record k of the VMD buffer
RawBoneQuaternion(k) ==
    LET p == HEADER_SIZE + 4 + (k - 1) * BONE_ENTRY_SIZE + 15 + 4 + 12
    IN <<F32At(buf, p), F32At(buf, p + 4), F32At(buf, p + 8), F32At(buf, p + 12)>>

\* The four floats of the quaternion bytes of kind q
QuatOf(q) ==
    <<F32At(QuatBytes(q), 0), F32At(QuatBytes(q), 4), F32At(QuatBytes(q), 8),
      F32At(QuatBytes(q), 12)>>

\* The quaternion bytes of the bone-morph offsets of the PMX file: PmxFields
\* writes QuatBytes(p.quat) in each of them
RawMorphQuaternion == QuatOf(fcase.p.quat)

BoneMorphOffsets ==
    IF model = None THEN {}
    ELSE {<<k, j>> \in (1..Len(model.morphs)) \X (1..MaxPmxRecords) :
              /\ j <= Len(model.morphs[k].offsets)
              /\ model.morphs[k].offsets[j].class = "BoneMorphOffset"}

ZeroQuatKinds == {q \in QuatKinds : AllZero(QuatOf(q))}

\* C10: no decoded BoneKeyframe.rotation and no decoded BoneMorphOffset.rotation
\* is all-zero; a quaternion whose four raw components are zero decodes to one
\* that equals (0, 0, 0, 1), and neither parser raises for a well-formed file
\* that holds such a quaternion.
C10_ZeroQuaternionBecomesIdentity ==
    /\ \A k \in 1..Len(bone_keyframes) :
           /\ ~AllZero(bone_keyframes[k].rotation)
           /\ AllZero(RawBoneQuaternion(k)) => IsIdentity(bone_keyframes[k].rotation)
    /\ \A kj \in BoneMorphOffsets :
           LET o == model.morphs[kj[1]].offsets[kj[2]]
           IN /\ ~AllZero(o.rotation)
              /\ AllZero(RawMorphQuaternion) => IsIdentity(o.rotation)
    /\ (fcase.kind = "variant" /\ fcase.field = "quat") => ppc # "error"
    /\ (\E q \in ZeroQuatKinds : buf = BuildVmd(FullCounts, q)) => vpc # "error"

\* A model whose bone-morph quaternion is (-0.0, -0.0, -0.0, -0.0) was
\* returned, then a motion whose bone quaternion is all-zero
C10_Witness ==
    /\ ppc = "done"
    /\ presult = "Model"
    /\ fcase.p.quat = "negzero"
    /\ <<1, 1>> \in BoneMorphOffsets
    /\ AllZero(RawMorphQuaternion)
    /\ vpc = "done"
    /\ Len(bone_keyframes) > 0
    /\ AllZero(RawBoneQuaternion(1))

(***************************************************************************)
(* Properties of the PMX sections                                          *)
(***************************************************************************)
\* The step of parse named pc has been done without a raise
StepDone(pc) == ppc # "error" /\ ppc # "idle" /\ StepIndex(ppc) > StepIndex(pc)

\* The vertex index that IndexBytes(x, size) stores, as read_vertex_index
\* returns it (two 16-bit halves): x modulo 2^(8w)
StoredVertexIndex(x, size) ==
    LET w == IF size \in {1, 2} THEN size ELSE 4
    IN IF x >= 0 THEN [lo |-> x, hi |-> 0]
       ELSE [lo |-> (IF w = 1 THEN 256 ELSE 65536) + x,
             hi |-> IF w = 4 THEN 65535 ELSE 0]

\* C14: the files made from parameters declare index_count = 3 * (n + fx) +
\* frem indices (frem < 3) and hold the triples (3k - 3, 3k - 2, -k) for k =
\* 1..n + fx; once the face section is decoded model.faces holds
\* floor(index_count / 3) = n + fx faces and the k-th is the k-th triple
\* reversed.
C14_FacesReversedInFileOrder ==
    (fcase.kind = "variant" /\ StepDone("faces")) =>
        LET p == fcase.p
            index_count == 3 * (p.n + p.fx) + p.frem
        IN /\ 3 * Len(model.faces) <= index_count
           /\ index_count < 3 * Len(model.faces) + 3
           /\ \A k \in 1..Len(model.faces) :
                 model.faces[k] = <<StoredVertexIndex(-k, p.vsz),
                                    StoredVertexIndex(3 * k - 2, p.vsz),
                                    StoredVertexIndex(3 * k - 3, p.vsz)>>

\* A model with more than two faces was returned
C14_Witness ==
    /\ ppc = "done"
    /\ fcase.kind = "variant"
    /\ fcase.p.fx = 2
    /\ Len(model.faces) = MaxPmxRecords + 2
    /\ model.faces[2] = <<[lo |-> 254, hi |-> 0], [lo |-> 4, hi |-> 0], [lo |-> 3, hi |-> 0]>>

FloatEq(a, b) == a = b \/ (FloatIsZero(a) /\ FloatIsZero(b))
IsNaN(a) == a.e = 255 /\ a.m # 0

C17_HeaderWidthsInRange ==
    ppc = "done" =>
        /\ model.header.vertex_index_size \in {1, 2, 4}
        /\ model.header.texture_index_size \in {1, 2, 4}
        /\ model.header.material_index_size \in {1, 2, 4}
        /\ model.header.bone_index_size \in {1, 2, 4}
        /\ model.header.morph_index_size \in {1, 2, 4}
        /\ model.header.rigid_index_size \in {1, 2, 4}
        /\ model.header.additional_uv_count \in 0..4

\* The globals bytes of the file: byte 0 is at offset 9
GlobalsByte(i) == fbytes[9 + i + 1]

WidthParams == {"uv", "vsz", "tsz", "msz", "bsz", "mosz", "rsz"}

\* C17 (amended): in a returned Model the additional-UV count and the six
\* header index widths are the globals bytes 1 to 7 of the file, whatever
\* their values: within 0..4 and one of 1, 2, 4 exactly when the file declares
\* them so; a file that declares other values is not rejected for it.
C17_HeaderCopiesGlobals ==
    /\ (fcase.kind = "variant" /\ fcase.field \in WidthParams) => ppc # "error"
    /\ ppc = "done" =>
        /\ presult = "Model"
        /\ model.header.additional_uv_count = GlobalsByte(1)
        /\ model.header.vertex_index_size = GlobalsByte(2)
        /\ model.header.texture_index_size = GlobalsByte(3)
        /\ model.header.material_index_size = GlobalsByte(4)
        /\ model.header.bone_index_size = GlobalsByte(5)
        /\ model.header.morph_index_size = GlobalsByte(6)
        /\ model.header.rigid_index_size = GlobalsByte(7)
        /\ fcase.kind = "variant" =>
              /\ GlobalsByte(1) = fcase.p.uv
              /\ <<GlobalsByte(2), GlobalsByte(3), GlobalsByte(4), GlobalsByte(5),
                    GlobalsByte(6), GlobalsByte(7)>>
                 = <<fcase.p.vsz, fcase.p.tsz, fcase.p.msz, fcase.p.bsz, fcase.p.mosz,
                     fcase.p.rsz>>

\* A model whose file declares a vertex index width of 2 and an additional-UV
\* count of 1 was returned
C17_Witness ==
    /\ ppc = "done"
    /\ fcase.kind = "variant"
    /\ fcase.p.vsz = 2
    /\ model.header.vertex_index_size = 2
    /\ model.header.texture_index_size = 1
    /\ model.header.additional_uv_count = 1
    /\ Len(model.vertices) > 0

RECURSIVE SumFaceCount(_)
SumFaceCount(materials) ==
    IF materials = <<>> THEN 0
    ELSE Head(materials).face_count + SumFaceCount(Tail(materials))

\* C18 (as claimed): in a returned Model the face_count values of the
\* materials sum to 3 times the number of faces.
C18_FaceCountsSumToFaces ==
    ppc = "done" => SumFaceCount(model.materials) = 3 * Len(model.faces)

CountParams == {"n", "frem", "fx", "fc"}

\* C18 (amended): the files made from parameters hold n materials that each
\* store face_count fc, and n + fx faces.  A returned Model has fc as the
\* face_count of each of its n materials and n + fx faces, so the sum is
\* 3 times the number of faces exactly when the stored values are (n * fc =
\* 3 * (n + fx)); a file whose values disagree is returned all the same.
C18_FaceCountsAsStored ==
    /\ (fcase.kind = "variant" /\ fcase.field \in CountParams) => ppc # "error"
    /\ (ppc = "done" /\ fcase.kind = "variant") =>
          LET p == fcase.p
          IN /\ Len(model.materials) = p.n
             /\ \A k \in 1..p.n : model.materials[k].face_count = p.fc
             /\ Len(model.faces) = p.n + p.fx
             /\ SumFaceCount(model.materials) = p.n * p.fc
             /\ (SumFaceCount(model.materials) = 3 * Len(model.faces))
                    <=> (p.n * p.fc = 3 * (p.n + p.fx))

\* A model whose one material stores face_count 6 and that has one face was
\* returned
C18_Witness ==
    /\ ppc = "done"
    /\ presult = "Model"
    /\ fcase.kind = "variant"
    /\ fcase.p.fc = 6
    /\ Len(model.materials) > 0
    /\ SumFaceCount(model.materials) = 6 * Len(model.materials)
    /\ Len(model.faces) = Len(model.materials)

(***************************************************************************)
(* Properties of the index readers                                         *)
(***************************************************************************)
\* The header-declared width of the index class that callfn reads
DeclaredWidth ==
    CASE callfn = "read_vertex_index" -> header.vertex_index_size
      [] callfn = "read_bone_index" -> header.bone_index_size
      [] callfn = "read_texture_index" -> header.texture_index_size
      [] callfn = "read_material_index" -> header.material_index_size
      [] callfn = "read_morph_index" -> header.morph_index_size
      [] callfn = "read_rigid_index" -> header.rigid_index_size

\* The first w bytes of b as a little-endian unsigned integer (as two 16-bit
\* halves) and as a two's-complement integer
UnsignedLE(b, w) ==
    [lo |-> IF w = 1 THEN b[1] ELSE b[1] + 256 * b[2],
     hi |-> IF w = 4 THEN b[3] + 256 * b[4] ELSE 0]

RECURSIVE LowBytes(_, _)
LowBytes(b, n) == IF n = 0 THEN 0 ELSE b[1] + 256 * LowBytes(Tail(b), n - 1)

SignedLE(b, w) ==
    LowBytes(b, w - 1)
    + (256 ^ (w - 1)) * (IF b[w] >= 128 THEN b[w] - 256 ELSE b[w])

AllOnes(b, w) == \A i \in 1..w : b[i] = 255

\* C13: an index read of a class whose header-declared width is w (1, 2 or 4)
\* does not raise, leaves the cursor w bytes further, and returns the w bytes
\* decoded little-endian, unsigned for read_vertex_index and two's-complement
\* for the five other classes; w bytes of 255 give 2^(8w) - 1 for a vertex
\* index and -1 for the others.
C13_IndexWidthAndSign ==
    callpc = "done" =>
        LET w == DeclaredWidth
        IN /\ callret.exc = NoExc
           /\ callret.pos = fpos + w
           /\ IF callfn = "read_vertex_index"
              THEN /\ callret.v = UnsignedLE(fbytes, w)
                   /\ AllOnes(fbytes, w) =>
                         callret.v = [lo |-> IF w = 1 THEN 255 ELSE 65535,
                                      hi |-> IF w = 4 THEN 65535 ELSE 0]
              ELSE /\ callret.v = SignedLE(fbytes, w)
                   /\ AllOnes(fbytes, w) => callret.v = -1

\* A two-byte bone index of 255, 255 was read as -1, two more bytes following
C13_Witness ==
    /\ callpc = "done"
    /\ callfn = "read_bone_index"
    /\ header.bone_index_size = 2
    /\ fbytes = <<255, 255, 1, 0>>
    /\ callret.v = -1
    /\ callret.pos = 2

(***************************************************************************)
(* Properties of the VMD decoder                                           *)
(***************************************************************************)
HeaderPasses ==
    /\ Len(buf) >= HEADER_SIZE
    /\ SubSeq(buf, 1, Len(SIGNATURE)) = SIGNATURE

VmdRunning == vpc \notin {"idle", "header", "done", "error"}

\* What a section that starts at offset start holds, computed from the buffer
\* alone: k = min(declared count, floor(remaining bytes / record size))
ExpectedCount(start, size) ==
    IF start + 4 > Len(buf) THEN 0
    ELSE U32Min(U32At(buf, start), (Len(buf) - start - 4) \div size)

ExpectedEnd(start, size) ==
    IF start + 4 > Len(buf) THEN start
    ELSE start + 4 + size * ExpectedCount(start, size)

BoneStart == HEADER_SIZE
MorphStart == ExpectedEnd(BoneStart, BONE_ENTRY_SIZE)
CameraStart == ExpectedEnd(MorphStart, MORPH_ENTRY_SIZE)

C9_BadHeaderRaisesPadded ==
    vpc \notin {"idle", "header"} =>
        /\ Len(buf) < HEADER_SIZE =>
              vresult = "ValueError: File too small for VMD header"
        /\ (Len(buf) >= HEADER_SIZE /\ Slice(buf, 0, 30) # PadTo(SIGNATURE, 30)) =>
              vresult = "ValueError: Not a VMD file (bad signature)"

\* C9 (amended): once the header is checked, a buffer shorter than 50 bytes has
\* raised "too small", a buffer of at least 50 bytes whose first 25 bytes are
\* not the signature has raised "Not a VMD", and every other buffer (whatever
\* its bytes 25..29 are) has raised neither; no VmdMotion is returned after
\* either error.
C9_BadHeaderRaises ==
    vpc \notin {"idle", "header"} =>
        /\ Len(buf) < HEADER_SIZE =>
              vresult = "ValueError: File too small for VMD header"
        /\ (Len(buf) >= HEADER_SIZE /\ SubSeq(buf, 1, 25) # SIGNATURE) =>
              vresult = "ValueError: Not a VMD file (bad signature)"
        /\ (Len(buf) >= HEADER_SIZE /\ SubSeq(buf, 1, 25) = SIGNATURE) =>
              vresult \in {"none", "VmdMotion"}
        /\ vresult \in {"ValueError: File too small for VMD header",
                        "ValueError: Not a VMD file (bad signature)"} => vpc = "error"

\* C9 witness: a buffer of at least 50 bytes has raised "Not a VMD".
C9_Witness ==
    /\ vpc = "error"
    /\ Len(buf) >= HEADER_SIZE
    /\ vresult = "ValueError: Not a VMD file (bad signature)"

\* The float32 values the generated files encode
FloatPosZero == [s |-> 0, e |-> 0, m |-> 0]
FloatNegZero == [s |-> 1, e |-> 0, m |-> 0]
FloatDenormal == [s |-> 0, e |-> 0, m |-> 1]
FloatTwo == [s |-> 0, e |-> 128, m |-> 0]
FloatHalf == [s |-> 0, e |-> 126, m |-> 0]

\* What BoneRecordBytes(k, q) encodes
EncodedQuaternion(q) ==
    CASE q = "identity" -> <<FloatPosZero, FloatPosZero, FloatPosZero, FloatOne>>
      [] q = "zero" -> <<FloatPosZero, FloatPosZero, FloatPosZero, FloatPosZero>>
      [] q = "negzero" -> <<FloatNegZero, FloatNegZero, FloatNegZero, FloatNegZero>>
      [] q = "mixedzero" -> <<FloatPosZero, FloatNegZero, FloatPosZero, FloatNegZero>>
      [] q = "xonly" -> <<FloatOne, FloatPosZero, FloatPosZero, FloatPosZero>>
      [] q = "denormal" -> <<FloatPosZero, FloatPosZero, FloatPosZero, FloatDenormal>>

EncodedBone(k, q) ==
    [bone_name |-> <<66, 48 + k>>,
     frame |-> [lo |-> 10 * k, hi |-> 0],
     location |-> <<FloatOne, FloatTwo, FloatHalf>>,
     rotation |-> EncodedQuaternion(q),
     interpolation |-> [i \in 1..64 |-> (i * k) % 128]]

\* What PropertyRecordBytes(k) encodes
EncodedProperty(k) ==
    [frame |-> [lo |-> k, hi |-> 0],
     visible |-> TRUE,
     ik_states |-> [j \in 1..k |-> <<<<73, 48 + j>>, j % 2 # 0>>]]

\* The complete files among the inputs, with what they encode
WellFormedVmd ==
    {[file |-> BuildVmd(c, "identity"), c |-> c, q |-> "identity"] : c \in VmdCounts}
    \cup {[file |-> BuildVmd(FullCounts, q), c |-> FullCounts, q |-> q] : q \in QuatKinds}
    \cup {[file |-> BuildVmd(c, "xonly"), c |-> c, q |-> "xonly"] : c \in LongCounts}

BoneSectionRead == vpc \notin {"idle", "header", "bone_count", "bone_loop", "error"}

\* C11: for a complete file that encodes n bone keyframes parse does not raise,
\* and once the bone section is read bone_keyframes holds n keyframes, the k-th
\* with the name, frame, location and interpolation bytes of the k-th encoded
\* record, and with its quaternion when that is not all-zero; no component is
\* swapped or negated.
C11_BoneKeyframesPreserved ==
    \A w \in WellFormedVmd :
        buf = w.file =>
            /\ vpc # "error"
            /\ BoneSectionRead =>
                  /\ Len(bone_keyframes) = w.c.bone
                  /\ \A k \in 1..w.c.bone :
                        LET kf == bone_keyframes[k]
                            enc == EncodedBone(k, w.q)
                        IN /\ kf.bone_name = enc.bone_name
                           /\ kf.frame = enc.frame
                           /\ kf.location = enc.location
                           /\ kf.interpolation = enc.interpolation
                           /\ ~AllZero(enc.rotation) => kf.rotation = enc.rotation

\* A file with more than one bone keyframe, the quaternion (1, 0, 0, 0) in
\* each, was decoded
C11_Witness ==
    /\ vpc = "done"
    /\ \E c \in LongCounts : buf = BuildVmd(c, "xonly")
    /\ Len(bone_keyframes) = MaxRecords + 1
    /\ bone_keyframes[2].rotation[1] = FloatOne

PropertySectionRead == vpc \in {"return", "done"}

ChainsDone == cpc = "done"

NonStaticBodies == {i \in Bodies : RB(i).mode # STATIC}

\* Joint adjacency read off the input joints, not off the neighbors table
InRangeJoint(j) ==
    /\ j.src_rigid \in Bodies
    /\ j.dest_rigid \in Bodies

JointAdjacent(a, b) ==
    \E k \in 1..Len(joints) :
        /\ InRangeJoint(joints[k])
        /\ \/ (joints[k].src_rigid = a /\ joints[k].dest_rigid = b)
           \/ (joints[k].src_rigid = b /\ joints[k].dest_rigid = a)

AllChainRigids == Concat([k \in 1..Len(chains) |-> chains[k].rigid_indices])

ChainRoots == {chains[k].root_rigid_index : k \in 1..Len(chains)}

\* Members of the chains of roots below r
ClaimedBelow(r) ==
    UNION {Range(chains[k].rigid_indices) :
              k \in {x \in 1..Len(chains) : chains[x].root_rigid_index < r}}

HasNonStaticNeighbor(r) == \E n \in NonStaticBodies : JointAdjacent(r, n)

\* C1 (as claimed): when detect_chains returns, the union of the chains'
\* rigid_indices is exactly the set of non-STATIC rigid bodies.
C1_UnionIsAllNonStatic ==
    ChainsDone => Range(AllChainRigids) = NonStaticBodies

\* C2: no rigid-body index occurs more than once in the concatenation of the
\* rigid_indices of all chains (at every point of the sweep, and on return).
C2_NoDuplicateBodies ==
    Len(AllChainRigids) = Cardinality(Range(AllChainRigids))

\* C2 witness: detect_chains has returned a chain holding a body that is
\* joint-adjacent to two different STATIC roots.
C2_Witness ==
    /\ ChainsDone
    /\ \E d \in Range(AllChainRigids) :
          \E r1, r2 \in Bodies :
              /\ r1 # r2
              /\ RB(r1).mode = STATIC /\ RB(r2).mode = STATIC
              /\ JointAdjacent(r1, d) /\ JointAdjacent(r2, d)

\* C3 (as claimed): a chain rooted at r is returned iff r is STATIC and has a
\* non-STATIC joint neighbour, and then exactly one.
C3_RootIffStaticWithDynamicNeighbor ==
    ChainsDone =>
        \A r \in Bodies :
            /\ (r \in ChainRoots) <=> (RB(r).mode = STATIC /\ HasNonStaticNeighbor(r))
            /\ Cardinality({k \in 1..Len(chains) : chains[k].root_rigid_index = r}) <= 1

\* C3 (amended): a chain rooted at r is returned iff r is STATIC and has a
\* non-STATIC joint neighbour that no chain of a lower-index root holds, and
\* then exactly one.
C3_RootIffUnclaimedDynamicNeighbor ==
    ChainsDone =>
        \A r \in Bodies :
            /\ (r \in ChainRoots) <=>
                   /\ RB(r).mode = STATIC
                   /\ \E n \in NonStaticBodies \ ClaimedBelow(r) : JointAdjacent(r, n)
            /\ Cardinality({k \in 1..Len(chains) : chains[k].root_rigid_index = r}) <= 1

\* C3 witness: detect_chains has returned at least one chain, and some STATIC
\* body with a non-STATIC neighbour is the root of none.
C3_Witness ==
    /\ ChainsDone
    /\ chains # <<>>
    /\ \E r \in Bodies :
          /\ RB(r).mode = STATIC
          /\ HasNonStaticNeighbor(r)
          /\ r \notin ChainRoots

\* C4: the root of every chain is STATIC and every member of rigid_indices is
\* not STATIC.
C4_RootStaticMembersDynamic ==
    \A k \in 1..Len(chains) :
        /\ RB(chains[k].root_rigid_index).mode = STATIC
        /\ \A i \in Range(chains[k].rigid_indices) : RB(i).mode # STATIC

\* C4 witness: a returned chain has a member that is joint-adjacent to a
\* STATIC body other than the chain's root.
C4_Witness ==
    /\ ChainsDone
    /\ \E k \in 1..Len(chains) :
          \E m \in Range(chains[k].rigid_indices) :
              \E s \in Bodies :
                  /\ s # chains[k].root_rigid_index
                  /\ RB(s).mode = STATIC
                  /\ JointAdjacent(s, m)

\* Bodies that a path from STATIC body r reaches when every body after r on
\* the path is non-STATIC (computed from the joints, not from the sweep)
RECURSIVE Closure(_)
Closure(S) ==
    LET T == S \cup {b \in NonStaticBodies : \E a \in S : JointAdjacent(a, b)}
    IN IF T = S THEN S ELSE Closure(T)

Reach(r) == Closure({b \in NonStaticBodies : JointAdjacent(r, b)})

\* The STATIC bodies with a non-STATIC neighbour
StaticRoots == {r \in Bodies : RB(r).mode = STATIC /\ HasNonStaticNeighbor(r)}

ReachBelow(r) == UNION {Reach(q) : q \in {x \in StaticRoots : x < r}}

ChainOf(r) == {k \in 1..Len(chains) : chains[k].root_rigid_index = r}

\* C19: the chains are held, at every point of the sweep and on return, in
\* strictly ascending order of root_rigid_index.
C19_ChainsAscendingByRoot ==
    \A i, j \in 1..Len(chains) :
        i < j => chains[i].root_rigid_index < chains[j].root_rigid_index

\* C19 witness: detect_chains has returned two chains or more.
C19_Witness ==
    /\ ChainsDone
    /\ Len(chains) >= 2

\* C20: on return, a non-STATIC body reachable from several roots through
\* non-STATIC bodies is in the chain of the lowest such root and in no other;
\* and the rigid_indices of the chain of root r are the bodies reachable from r
\* through non-STATIC bodies minus those so reachable from a lower root.
C20_SharedBodyGoesToLowestRoot ==
    ChainsDone =>
        /\ \A b \in NonStaticBodies :
              LET from == {r \in StaticRoots : b \in Reach(r)}
              IN from # {} =>
                    LET low == CHOOSE r \in from : \A q \in from : r <= q
                    IN \A k \in 1..Len(chains) :
                          (b \in Range(chains[k].rigid_indices))
                              <=> (k \in ChainOf(low))
        /\ \A b \in NonStaticBodies :
              (\E r \in StaticRoots : b \in Reach(r))
                  => b \in Range(AllChainRigids)
        /\ \A k \in 1..Len(chains) :
              Range(chains[k].rigid_indices) =
                  Reach(chains[k].root_rigid_index)
                      \ ReachBelow(chains[k].root_rigid_index)

\* C20 witness: detect_chains has returned, and some member of a chain is
\* reachable through non-STATIC bodies from two roots, from one of them only
\* by a path of two joints or more.
C20_Witness ==
    /\ ChainsDone
    /\ \E k \in 1..Len(chains) :
          \E b \in Range(chains[k].rigid_indices) :
              \E r \in StaticRoots :
                  /\ r # chains[k].root_rigid_index
                  /\ b \in Reach(r)
                  /\ b \in Reach(chains[k].root_rigid_index)
                  /\ ~JointAdjacent(chains[k].root_rigid_index, b)


\* C21 (as claimed): every step that appends a PropertyKeyframe appends one
\* whose ik_states holds exactly the number of pairs that the record declares
\* (the uint32 at offset 5 of the record), and a step that meets a record it
\* cannot read completely leaves the property loop.
C21_PropertyRecordsComplete ==
    [][(vpc = "property_loop" /\ U32Gt(count, idx) /\ pos + 5 <= Len(buf)) =>
          IF Len(property_keyframes') > Len(property_keyframes)
          THEN LET declared == U32At(buf, pos + 5)
                   k == property_keyframes'[Len(property_keyframes')]
               IN declared.hi = 0 /\ declared.lo = Len(k.ik_states)
          ELSE vpc' # "property_loop"]_vars


AfterHeader == vpc \notin {"idle", "header", "error"}

AllOnesCount == [lo |-> 65535, hi |-> 65535]

\* C29: once the header checks have passed, the cursor stays between 50 and
\* len(buf), and no step of the parse moves it backwards.
C29_CursorMonotoneInBuffer ==
    /\ [](AfterHeader => (HEADER_SIZE <= pos /\ pos <= Len(buf)))
    /\ [][AfterHeader => pos' >= pos]_vars

\* C29 witness: the light section declares 2^32-1 records and has been skipped,
\* and the parse has returned.
C29_Witness ==
    /\ vresult = "VmdMotion"
    /\ Len(buf) >= LightCountAt + 4
    /\ Len(bone_keyframes) = MaxRecords
    /\ Len(morph_keyframes) = MaxRecords
    /\ Len(camera_keyframes) = MaxRecords
    /\ U32At(buf, LightCountAt) = AllOnesCount
    /\ pos = Len(buf)

\* The offsets at which parse reads the morph and the camera count, given the
\* records returned
MorphCountOffset == HEADER_SIZE + 4 + BONE_ENTRY_SIZE * Len(bone_keyframes)
CameraCountOffset == MorphCountOffset + 4 + MORPH_ENTRY_SIZE * Len(morph_keyframes)

\* A section whose count was read and which returned fewer records than that
StoppedEarly(at, keyframes) ==
    /\ at + 4 <= Len(buf)
    /\ U32Gt(U32At(buf, at), Len(keyframes))

BoneStoppedEarly == StoppedEarly(HEADER_SIZE, bone_keyframes)
MorphStoppedEarly == ~BoneStoppedEarly /\ StoppedEarly(MorphCountOffset, morph_keyframes)
CameraStoppedEarly ==
    /\ ~BoneStoppedEarly
    /\ ~MorphStoppedEarly
    /\ StoppedEarly(CameraCountOffset, camera_keyframes)

\* C30 (as claimed): in the VmdMotion returned, every section after one that
\* returned fewer records than it declares is empty.
C30_LaterSectionsEmpty ==
    vresult = "VmdMotion" =>
        /\ BoneStoppedEarly =>
              (morph_keyframes = <<>> /\ camera_keyframes = <<>>
                  /\ property_keyframes = <<>>)
        /\ MorphStoppedEarly =>
              (camera_keyframes = <<>> /\ property_keyframes = <<>>)
        /\ CameraStoppedEarly => property_keyframes = <<>>


\* Joint j (0-based) joins bodies a and b
Joins(j, a, b) ==
    \/ (joints[j + 1].src_rigid = a /\ joints[j + 1].dest_rigid = b)
    \/ (joints[j + 1].src_rigid = b /\ joints[j + 1].dest_rigid = a)

\* The bodies that the joints of js connect to body r, directly or not
RECURSIVE TreeClosure(_, _)
TreeClosure(S, js) ==
    LET T == S \cup {b \in Bodies : \E a \in S : \E j \in js : Joins(j, a, b)}
    IN IF T = S THEN S ELSE TreeClosure(T, js)

InRangeJoints == {j \in 0..(Len(joints) - 1) : InRangeJoint(joints[j + 1])}
OutOfRangeJoints == {j \in 0..(Len(joints) - 1) : ~InRangeJoint(joints[j + 1])}

\* C27: every chain has as many joint_indices as rigid_indices and at least
\* one of each; the joints are distinct joints of the model and connect every
\* member to the root, so that they pair off with the members (one joint per
\* member: the joint through which the sweep reached it).
C27_OneJointPerMember ==
    \A k \in 1..Len(chains) :
        LET c == chains[k]
            js == Range(c.joint_indices)
        IN /\ Len(c.joint_indices) = Len(c.rigid_indices)
           /\ Len(c.rigid_indices) >= 1
           /\ Cardinality(js) = Len(c.joint_indices)
           /\ js \subseteq InRangeJoints
           /\ TreeClosure({c.root_rigid_index}, js)
                  = {c.root_rigid_index} \cup Range(c.rigid_indices)

\* C27 witness: detect_chains has returned a chain with a member reached from
\* another member, and a joint among the chain's bodies that it did not
\* traverse.
C27_Witness ==
    /\ ChainsDone
    /\ \E k \in 1..Len(chains) :
          LET c == chains[k]
              members == Range(c.rigid_indices)
          IN /\ \E b \in members : ~JointAdjacent(c.root_rigid_index, b)
             /\ \E j \in InRangeJoints \ Range(c.joint_indices) :
                   \E a, b \in members : a # b /\ Joins(j, a, b)

\* C28: a joint with an endpoint below 0 or not below len(rigid_bodies) adds
\* no entry to the adjacency (so that every neighbour index is a valid index
\* of rigid_bodies and no lookup can fail) and is in no chain's joint_indices.
C28_OutOfRangeJointsIgnored ==
    /\ \A i \in DOMAIN neighbors :
          \A k \in 1..Len(neighbors[i]) :
              /\ neighbors[i][k][1] \in Bodies
              /\ neighbors[i][k][2] \notin OutOfRangeJoints
    /\ \A k \in 1..Len(chains) :
          Range(chains[k].joint_indices) \cap OutOfRangeJoints = {}

\* C28 witness: detect_chains has returned a chain for a model that holds an
\* out-of-range joint placed before an in-range one.
C28_Witness ==
    /\ ChainsDone
    /\ chains # <<>>
    /\ \E j \in OutOfRangeJoints : \E i \in InRangeJoints : j < i


(***************************************************************************)
(* Properties of the bone and morph records                                *)
(***************************************************************************)
\* The operations of the reads of the last step, in order
ReadOps == [i \in 1..Len(reads) |-> reads[i].op]

\* The primitive that reads a signed index of declared width size
SignedIndexOp(size) == IF size = 1 THEN "int8" ELSE IF size = 2 THEN "int16" ELSE "int32"
UnsignedIndexOp(size) ==
    IF size = 1 THEN "uint8" ELSE IF size = 2 THEN "uint16" ELSE "uint32"

\* V3 as decoded, and after the swap of its last two components
DecodedV3 == <<FloatOne, FloatTwo, FloatHalf>>
SwappedV3 == <<FloatOne, FloatHalf, FloatTwo>>
DecodedV4 == <<FloatHalf, FloatOne, FloatTwo, FloatPosZero>>

\* The reads that the flag word fl calls for after it, in the order display
\* connection, additional transform, fixed axis, local axes, external parent,
\* IK (with links IK links, each with limits or without)
OptionalBoneOps(fl, iop, links, limits) ==
    (IF Bit(fl, 0) THEN <<iop>> ELSE <<"vec3">>)
    \o (IF Bit(fl, 8) \/ Bit(fl, 9) THEN <<iop, "float">> ELSE <<>>)
    \o (IF Bit(fl, 10) THEN <<"vec3">> ELSE <<>>)
    \o (IF Bit(fl, 11) THEN <<"vec3", "vec3">> ELSE <<>>)
    \o (IF Bit(fl, 13) THEN <<"int32">> ELSE <<>>)
    \o (IF Bit(fl, 5)
        THEN <<iop, "int32", "float", "int32">>
             \o Rep(links, <<iop, "uint8">>
                           \o (IF limits # 0 THEN <<"vec3", "vec3">> ELSE <<>>))
        ELSE <<>>)

\* The reads of the bone section of the file made from parameters p
ExpectedBoneOps(p) ==
    LET iop == SignedIndexOp(p.bsz)
    IN <<"int32">>
       \o Rep(p.n, <<"int32", "bytes", "int32", "bytes", "vec3", iop, "int32", "uint16">>
                   \o OptionalBoneOps(p.bflags, iop, p.n, p.limits))

ExpectedIkLink(p, j) ==
    [bone_index |-> j - 1, has_limits |-> p.limits # 0,
     limit_min |-> IF p.limits # 0 THEN SwappedV3 ELSE None,
     limit_max |-> IF p.limits # 0 THEN SwappedV3 ELSE None]

\* C22: in the bone section of a file made from parameters, the flag word is
\* read once per bone, before the optional sub-records, which are read in the
\* fixed order and exactly when their bits are set (the additional transform
\* once when bit 8 or bit 9 is set), and every decoded Bone holds the
\* sub-records that its flags call for and None for the others.
C22_BoneSubRecordsFollowFlags ==
    (fcase.kind = "variant" /\ ppc = "morphs") =>
        LET p == fcase.p
            fl == p.bflags
        IN /\ ReadOps = ExpectedBoneOps(p)
           /\ Len(model.bones) = p.n
           /\ \A k \in 1..Len(model.bones) :
                 LET b == model.bones[k]
                 IN /\ b.flags = fl
                    /\ b.display_connection = IF Bit(fl, 0) THEN -1 ELSE SwappedV3
                    /\ b.additional_transform =
                           IF Bit(fl, 8) \/ Bit(fl, 9) THEN <<k - 1, FloatHalf>> ELSE None
                    /\ b.fixed_axis = IF Bit(fl, 10) THEN SwappedV3 ELSE None
                    /\ b.local_axis_x = IF Bit(fl, 11) THEN SwappedV3 ELSE None
                    /\ b.local_axis_z = IF Bit(fl, 11) THEN SwappedV3 ELSE None
                    /\ b.external_parent = IF Bit(fl, 13) THEN 7 ELSE None
                    /\ b.ik_target = IF Bit(fl, 5) THEN k - 1 ELSE None
                    /\ b.ik_loop_count = IF Bit(fl, 5) THEN 40 ELSE None
                    /\ b.ik_limit_angle = IF Bit(fl, 5) THEN FloatOne ELSE None
                    /\ b.ik_links =
                           IF Bit(fl, 5) THEN [j \in 1..p.n |-> ExpectedIkLink(p, j)]
                           ELSE None

\* C22 witness: a bone with every optional sub-record (bits 0, 5, 8, 9, 10,
\* 11 and 13) has been decoded.
C22_Witness ==
    /\ fcase.kind = "variant"
    /\ ppc = "morphs"
    /\ Len(model.bones) = MaxPmxRecords
    /\ \A i \in {0, 5, 8, 9, 10, 11, 13} : Bit(model.bones[1].flags, i)
    /\ Len(model.bones[1].ik_links) = MaxPmxRecords


\* The record shape that a morph-type tag implies
OffsetClass(tag) ==
    CASE tag = GROUP -> "GroupMorphOffset"
      [] tag = VERTEX -> "VertexMorphOffset"
      [] tag = BONE -> "BoneMorphOffset"
      [] tag \in UVTypes -> "UVMorphOffset"
      [] tag = MATERIAL -> "MaterialMorphOffset"

\* The reads of one offset of that shape
OffsetOps(p, tag) ==
    CASE tag = GROUP -> <<SignedIndexOp(p.mosz), "float">>
      [] tag = VERTEX -> <<UnsignedIndexOp(p.vsz), "vec3">>
      [] tag = BONE -> <<SignedIndexOp(p.bsz), "vec3", "vec4">>
      [] tag \in UVTypes -> <<UnsignedIndexOp(p.vsz), "vec4">>
      [] tag = MATERIAL ->
           <<SignedIndexOp(p.msz), "uint8", "vec4", "vec3", "float", "vec3", "vec4",
             "float", "vec4", "vec4", "vec4">>

\* The reads of the morph section of the file made from parameters p when
\* each morph decodes offsets offsets: the type tag (the second uint8) comes
\* before the offset count (the int32 after it)
ExpectedMorphOps(p, offsets) ==
    <<"int32">>
    \o Rep(p.n, <<"int32", "bytes", "int32", "bytes", "uint8", "uint8", "int32">>
                \o Rep(offsets, OffsetOps(p, p.mtype)))

MorphsDecoded == fcase.kind = "variant" /\ ppc = "display_frames"

\* Every offset of every decoded morph has the shape of the morph's tag
OneShapePerMorph ==
    \A k \in 1..Len(model.morphs) :
        /\ model.morphs[k].morph_type = fcase.p.mtype
        /\ \A j \in 1..Len(model.morphs[k].offsets) :
              model.morphs[k].offsets[j].class = OffsetClass(fcase.p.mtype)

PermutationReturned == callpc \in {"returned", "helper", "done"}

NonZeroInRow(m, i) == {j \in 0..2 : Entry(m, i, j) # 0}
NonZeroInColumn(m, j) == {i \in 0..2 : Entry(m, i, j) # 0}

\* C24: the matrix returned by _axis_aligned_permutation has exactly one
\* non-zero entry in each row and in each column, and each entry is 0, +1 or
\* -1, whatever the input (ties and all-zero matrices included).
C24_PermutationIsSignedPermutation ==
    PermutationReturned =>
        /\ \A i \in 0..2 : Cardinality(NonZeroInRow(callret.m, i)) = 1
        /\ \A j \in 0..2 : Cardinality(NonZeroInColumn(callret.m, j)) = 1
        /\ \A i, j \in 0..2 : Entry(callret.m, i, j) \in {-1, 0, 1}

\* C24 witness: the permutation of the all-zero matrix has been returned, and
\* it is the identity.
C24_Witness ==
    /\ callpc = "returned"
    /\ callarg = ZeroMatrix
    /\ callret.m = <<<<1, 0, 0>>, <<0, 1, 0>>, <<0, 0, 1>>>>

\* C25: the index list of _InterpolationHelper is a permutation of (0, 1, 2)
\* whose entry i is the column of the non-zero entry of row i of the greedy
\* permutation matrix of the same input, and location channel i takes its row
\* from offset 16 times that column.
C25_InterpolationFollowsPermutation ==
    /\ callpc \in {"helper", "done"} =>
          /\ {callret.indices[n] : n \in 1..3} = 0..2
          /\ \A i \in 0..2 : NonZeroInRow(callret.m, i) = {callret.indices[i + 1]}
    /\ callpc = "done" =>
          \A i \in 0..2 : callret.loc_indices[i + 1] = 16 * callret.indices[i + 1]

\* C25 witness: the offsets have been remapped for a matrix of nine different
\* magnitudes whose permutation moves every axis.
C25_Witness ==
    /\ callpc = "done"
    /\ callarg \in DistinctMatrices
    /\ callret.loc_indices = <<16, 32, 0>>


(***************************************************************************)
(* Properties of the bone names                                            *)
(***************************************************************************)
\* C26: _ensure_unique_names returns one name per bone, and the returned
\* names are pairwise distinct, for every list of bones (a base name equal to
\* a suffixed name generated earlier included).
C26_NamesPairwiseDistinct ==
    (callfn = "_ensure_unique_names" /\ callpc = "returned") =>
        /\ Len(callret.names) = Len(callarg)
        /\ \A a, b \in 1..Len(callret.names) :
              a # b => callret.names[a] # callret.names[b]

====
